---- MODULE Spec2Model ----
(***************************************************************************)
(* State-machine model of the PasswordManager native messaging host        *)
(* (native-host/main.go) together with the parts of store, krypto,         *)
(* internal/vault, internal/db and domaincheck that its handlers call.     *)
(*                                                                         *)
(* Cryptography is symbolic: a key, a salt or a ciphertext is a record     *)
(* naming what it was made from, and a decryption succeeds exactly when    *)
(* key, nonce and associated data are the ones used to encrypt.  Byte      *)
(* buffers that the code zeroizes ([]byte holding a MEK) live in a heap of *)
(* addressed buffers, so that copying and aliasing differ.                 *)
(***************************************************************************)
EXTENDS Integers, Sequences, FiniteSets, TLC

VARIABLES
    sess,      \* the process-global sessionState (main.go:183)
    heap,      \* byte buffers reachable from sess (sess.mek is an address)
    now,       \* wall clock, seconds
    osenv,     \* what the OS answers to user.Current() and os.Getenv
    headers,   \* header.json of every vault directory on disk
    dbs,       \* vault.db of every vault directory on disk
    issued,    \* number of tokens drawn from the CSPRNG so far
    rng,       \* number of entry salts/nonces drawn from the CSPRNG so far
    req,       \* the request frame handled last
    resp,      \* the response frame written last
    ret,       \* what the last validateRequest call returned to its handler
    svc,       \* the Service of a desktop process (internal/service)
    cli,       \* the session of a running `pm session` process
    call,      \* the call made last, by which component, and what it returned
    proc,      \* the host process: its pipes, main's position, the mutex, the signal goroutine
    bg,        \* the extension's background page: the frame context and its message handlers
    nm,        \* the extension's native messaging module: the port and the calls queued on it
    rd         \* the reads under way on vault.db, between their SELECT and their UPDATE

vars == <<sess, heap, now, osenv, headers, dbs, issued, rng, req, resp, ret,
          svc, cli, call, proc, bg, nm, rd>>

-----------------------------------------------------------------------------
(* Bounds of the model *)

MaxTokens == 2      \* unlocks that reach generateToken
MaxRng    == 2      \* entry encryptions (each draws one salt and one nonce)
MaxNow    == 601    \* the clock stops here

(* Program constants *)

unlockTTL       == 600   \* seconds (10 * time.Minute)
mekLen          == 32
gcmNonceSize    == 12
expectedSaltSz  == 12
entrySaltLen    == 16
ZeroTime        == -1    \* time.Time{}: before every instant the clock shows

Nil == 0                 \* the nil slice: no buffer

-----------------------------------------------------------------------------
(* Byte buffers: a length and the value the bytes spell; 0 is the value of a
   buffer whose bytes are all zero. *)

Bytes(n, b) == [len |-> n, val |-> IF n = 0 THEN 0 ELSE b]

\* zeroize (main.go:686): every byte of the buffer becomes 0, in place.
zeroizeBytes(buf) == [buf EXCEPT !.val = 0]

\* zeroize applied to the buffer at address a of heap h; a nil slice has no bytes.
zeroize(h, a) ==
    IF a = Nil THEN h ELSE [h EXCEPT ![a] = zeroizeBytes(h[a])]

\* len(slice) for a slice held as an address.
LenAt(h, a) == IF a = Nil THEN 0 ELSE h[a].len

\* make([]byte, n) followed by copy: a new buffer at an unused address.
NewAddr(h) == Len(h) + 1

Alloc(h, bytes) == Append(h, bytes)

\* A variant of copyBytes that hands out the buffer itself instead of a copy.
copyBytes_aliasing(h, a) == [heap |-> h, addr |-> a]

\* dst := make([]byte, len(src)); copy(dst, src): the heap with the copy in
\* it, and the copy's address.
copyBytes(h, a) == [heap |-> Alloc(h, h[a]), addr |-> NewAddr(h)]

\* When a handler returns, its local buffers go out of scope.  The buffer the
\* session holds is kept (at address 1); a local buffer that was zeroized is
\* gone; one that was not zeroized stays in memory as residue.
Collect(h, s) ==
    LET residue == SelectSeq([i \in 1..Len(h) |->
                                 IF i = s.mek THEN zeroizeBytes(h[i]) ELSE h[i]],
                             LAMBDA b : b.val # 0)
    IN  IF s.mek = Nil THEN [heap |-> residue, sess |-> s]
        ELSE [heap |-> <<h[s.mek]>> \o residue, sess |-> [s EXCEPT !.mek = 1]]

-----------------------------------------------------------------------------
(* krypto: Argon2id and AES-256-GCM, symbolically *)

\* A string field holding base64 text: empty, not base64, or the encoding of raw.
EmptyStr   == [kind |-> "empty"]
InvalidB64 == [kind |-> "invalid"]
B64(raw)   == [kind |-> "b64", raw |-> raw]

NoKey == [kind |-> "none", len |-> 0]

NoBytes == [len |-> 0, val |-> 0]

\* krypto.DeriveKeyArgon2id: the parameter checks, then a key that is a
\* function of password, salt and cost parameters, of the requested length.
DeriveKeyArgon2id(password, salt, p) ==
    IF password = "" THEN [err |-> "password is required", key |-> NoKey]
    ELSE IF salt.len = 0 THEN [err |-> "salt is required", key |-> NoKey]
    ELSE IF salt.len # expectedSaltSz THEN [err |-> "salt length", key |-> NoKey]
    ELSE IF p.KeyLen = 0 THEN [err |-> "key length", key |-> NoKey]
    ELSE IF p.MemoryMB = 0 THEN [err |-> "memory", key |-> NoKey]
    ELSE IF p.Time = 0 THEN [err |-> "time", key |-> NoKey]
    ELSE IF p.SaltLen <= 0 THEN [err |-> "salt length parameter", key |-> NoKey]
    ELSE [err |-> "",
          key |-> [kind |-> "argon2id", pw |-> password, salt |-> salt,
                   mem |-> p.MemoryMB, time |-> p.Time, par |-> p.Parallelism,
                   len |-> p.KeyLen]]

\* The ciphertext gcm.Seal produces: it opens only under the same key, nonce
\* and associated data, and is 16 bytes (the tag) longer than the plaintext.
Seal(key, nonce, plaintext, aad) ==
    [key |-> key, nonce |-> nonce, aad |-> aad, pt |-> plaintext]

\* A variant of DecryptAESGCM that does not authenticate: it opens under any
\* key of the right length.
DecryptAESGCM_unauthenticated(key, nonce, ciphertext, aad) ==
    IF key.len # mekLen THEN [err |-> "aes-gcm requires a 32-byte key", pt |-> NoBytes]
    ELSE IF nonce.len # gcmNonceSize THEN [err |-> "invalid nonce size", pt |-> NoBytes]
    ELSE [err |-> "", pt |-> ciphertext.pt]

\* krypto.DecryptAESGCM
DecryptAESGCM(key, nonce, ciphertext, aad) ==
    IF key.len # mekLen THEN [err |-> "aes-gcm requires a 32-byte key", pt |-> NoBytes]
    ELSE IF nonce.len # gcmNonceSize THEN [err |-> "invalid nonce size", pt |-> NoBytes]
    ELSE IF ciphertext.key = key /\ ciphertext.nonce = nonce /\ ciphertext.aad = aad
         THEN [err |-> "", pt |-> ciphertext.pt]
    ELSE [err |-> "decrypt", pt |-> NoBytes]

-----------------------------------------------------------------------------
(* store: header.json *)

headerMEKAAD == "header.mek"

\* filepath.Abs of the request's dir: a relative path is joined to the working
\* directory (here "/"), an absolute one is kept.
Abs(dir) == CASE dir = "v1" -> "/v1"
              [] OTHER -> dir

\* strings.TrimSpace(dir) == ""
IsBlank(str) == str \in {"", "  "}

\* store.LoadVaultHeader: header.json missing, undecodable, or decoded.
LoadVaultHeader(dir) ==
    IF dir \notin DOMAIN headers THEN [err |-> "not exist"]
    ELSE IF ~headers[dir].json THEN [err |-> "decode header"]
    ELSE [err |-> "", hdr |-> headers[dir].hdr]

\* base64.StdEncoding.DecodeString
DecodeString(str) ==
    CASE str.kind = "empty"   -> [err |-> "", raw |-> [id |-> 0, len |-> 0]]
      [] str.kind = "invalid" -> [err |-> "illegal base64", raw |-> [id |-> 0, len |-> 0]]
      [] OTHER                -> [err |-> "", raw |-> str.raw]

\* store.LoadAndUnwrapMEK: the bytes of the unwrapped MEK, or an error.
LoadAndUnwrapMEK(dir, pdk) ==
    IF pdk.len # mekLen THEN [err |-> "invalid PDK length", mek |-> NoBytes]
    ELSE LET l == LoadVaultHeader(dir) IN
    IF l.err # "" THEN [err |-> l.err, mek |-> NoBytes]
    ELSE IF l.hdr.Version # 1 THEN [err |-> "unsupported header version", mek |-> NoBytes]
    ELSE IF l.hdr.KDF.Name # "argon2id" THEN [err |-> "unsupported kdf", mek |-> NoBytes]
    ELSE IF l.hdr.WrapNonce.kind = "empty" \/ l.hdr.WrappedMEK.kind = "empty"
         THEN [err |-> "wrapped mek not present", mek |-> NoBytes]
    ELSE LET n == DecodeString(l.hdr.WrapNonce)
             c == DecodeString(l.hdr.WrappedMEK) IN
    IF n.err # "" THEN [err |-> "decode wrap nonce", mek |-> NoBytes]
    ELSE IF c.err # "" THEN [err |-> "decode wrapped mek", mek |-> NoBytes]
    ELSE LET d == DecryptAESGCM(pdk, n.raw, c.raw, headerMEKAAD) IN
    IF d.err # "" THEN [err |-> "unwrap mek", mek |-> NoBytes]
    ELSE [err |-> "", mek |-> d.pt]

-----------------------------------------------------------------------------
(* native-host: the session (sessionState and its methods) *)

\* The zero sessionState: what `var sess sessionState` holds at start and what
\* clearLockedUnsafe leaves.
NoSession ==
    [token |-> "", mek |-> Nil, expires |-> ZeroTime, dir |-> "",
     nonces |-> {}, noncesNil |-> TRUE, ownerUID |-> ""]

\* currentUserIdentifier: Uid, else Username, of user.Current() when it
\* succeeds; else $USER; else $USERNAME; else "".
currentUserIdentifier(e) ==
    IF e.ok /\ e.Uid # "" THEN e.Uid
    ELSE IF e.ok /\ e.Username # "" THEN e.Username
    ELSE IF e.USER # "" THEN e.USER
    ELSE IF e.USERNAME # "" THEN e.USERNAME
    ELSE ""

\* A variant of generateToken whose draws repeat.
TokenStr_repeating(k) == "tok1"

\* generateToken: the base64 text of 32 fresh CSPRNG bytes, the k-th draw of
\* the process; two draws never coincide.
TokenStr(k) == "tok" \o ToString(k)

\* A variant of clearLockedUnsafe that drops the MEK without zeroizing it.
clearLockedUnsafe_forgetting(m) == [sess |-> NoSession, heap |-> m.heap]

\* A variant of clearLockedUnsafe that resets the token but keeps the MEK.
clearLockedUnsafe_keeping(m) ==
    [sess |-> [NoSession EXCEPT !.mek = m.sess.mek], heap |-> m.heap]

\* sessionState.clearLockedUnsafe on machine state m = [sess, heap].
clearLockedUnsafe(m) ==
    [sess |-> NoSession,
     heap |-> IF LenAt(m.heap, m.sess.mek) > 0 THEN zeroize(m.heap, m.sess.mek)
              ELSE m.heap]

\* A variant of clear that leaves the session as it is.
clear_skipped(m) == m

\* sessionState.clear
clear(m) == clearLockedUnsafe(m)

\* sessionState.establish(dir, mek): mek is the address of the caller's buffer;
\* randOK says whether generateToken's rand.Read succeeds; k numbers the draw.
establish(m, dir, mek, randOK, k, t, e) ==
    LET c  == clearLockedUnsafe(m)
        cp == copyBytes(c.heap, mek)
        h1 == cp.heap
        s1 == [c.sess EXCEPT !.mek = cp.addr]
    IN  IF ~randOK
        THEN LET f == clearLockedUnsafe([sess |-> s1, heap |-> h1])
             IN  [sess |-> f.sess, heap |-> f.heap, token |-> "", ttl |-> 0,
                  err |-> "rand"]
        ELSE [sess |-> [s1 EXCEPT !.token = TokenStr(k),
                                  !.dir = dir,
                                  !.expires = t + unlockTTL,
                                  !.nonces = {},
                                  !.noncesNil = FALSE,
                                  !.ownerUID = currentUserIdentifier(e)],
              heap |-> h1, token |-> TokenStr(k), ttl |-> unlockTTL, err |-> ""]

\* A variant of Rejected in which every rejection destroys the session.
Rejected_clearing(s, h, err) ==
    [sess |-> NoSession, heap |-> zeroize(h, s.mek), mek |-> Nil, dir |-> "",
     err |-> err]

\* A validateRequest call that fails: no MEK, no dir.
Rejected(s, h, err) ==
    [sess |-> s, heap |-> h, mek |-> Nil, dir |-> "", err |-> err]

\* A variant of ownerDiffers that never objects.
ownerDiffers_ignored(s, e) == FALSE

\* The owner check of validateRequest: both identifiers resolvable, and not
\* the same.
ownerDiffers(s, e) ==
    /\ s.ownerUID # ""
    /\ currentUserIdentifier(e) # ""
    /\ currentUserIdentifier(e) # s.ownerUID

\* A variant of Accepted that leaves expires where it was.
Accepted_unextended(s, h, nonce, t) ==
    LET cp == copyBytes(h, s.mek)
    IN  [sess |-> [s EXCEPT !.nonces = @ \cup {nonce}, !.noncesNil = FALSE],
         heap |-> cp.heap, mek |-> cp.addr, dir |-> s.dir, err |-> ""]

\* A validateRequest call that succeeds: the nonce is recorded, expires moves
\* to t + unlockTTL, a copy of the MEK and the directory are returned.
Accepted(s, h, nonce, t) ==
    LET cp == copyBytes(h, s.mek)
    IN  [sess |-> [s EXCEPT !.nonces = @ \cup {nonce},
                            !.noncesNil = FALSE,
                            !.expires = t + unlockTTL],
         heap |-> cp.heap, mek |-> cp.addr, dir |-> s.dir, err |-> ""]

\* A variant of validateRequest that compares the tokens before it looks at
\* the expiry.
validateRequest_tokenFirst(m, token, nonce, t, e) ==
    LET s == m.sess
        h == m.heap
    IN  IF s.token = "" \/ token = "" \/ nonce = ""
        THEN Rejected(s, h, "unauthorized")
        ELSE IF s.token # token
        THEN Rejected(s, h, "unauthorized")
        ELSE IF t > s.expires
        THEN LET c == clearLockedUnsafe(m) IN Rejected(c.sess, c.heap, "expired")
        ELSE IF ownerDiffers(s, e)
        THEN Rejected(s, h, "unauthorized")
        ELSE IF LenAt(h, s.mek) # mekLen
        THEN LET c == clearLockedUnsafe(m) IN Rejected(c.sess, c.heap, "invalid state")
        ELSE IF nonce \in s.nonces
        THEN Rejected([s EXCEPT !.noncesNil = FALSE], h, "nonce_replayed")
        ELSE Accepted(s, h, nonce, t)

\* A variant of validateRequest that records the nonce of a request it
\* refuses for its token.
validateRequest_recording(m, token, nonce, t, e) ==
    LET s == m.sess
        h == m.heap
    IN  IF s.token = "" \/ token = "" \/ nonce = ""
        THEN Rejected(s, h, "unauthorized")
        ELSE IF t > s.expires
        THEN LET c == clearLockedUnsafe(m) IN Rejected(c.sess, c.heap, "expired")
        ELSE IF s.token # token
        THEN Rejected([s EXCEPT !.nonces = @ \cup {nonce}], h, "unauthorized")
        ELSE IF ownerDiffers(s, e)
        THEN Rejected(s, h, "unauthorized")
        ELSE IF LenAt(h, s.mek) # mekLen
        THEN LET c == clearLockedUnsafe(m) IN Rejected(c.sess, c.heap, "invalid state")
        ELSE IF nonce \in s.nonces
        THEN Rejected([s EXCEPT !.noncesNil = FALSE], h, "nonce_replayed")
        ELSE Accepted(s, h, nonce, t)

\* sessionState.validateRequest(token, nonce) at time t under OS answers e.
validateRequest(m, token, nonce, t, e) ==
    LET s == m.sess
        h == m.heap
    IN  IF s.token = "" \/ token = "" \/ nonce = ""
        THEN Rejected(s, h, "unauthorized")
        ELSE IF t > s.expires
        THEN LET c == clearLockedUnsafe(m) IN Rejected(c.sess, c.heap, "expired")
        ELSE IF s.token # token
        THEN Rejected(s, h, "unauthorized")
        ELSE IF ownerDiffers(s, e)
        THEN Rejected(s, h, "unauthorized")
        ELSE IF LenAt(h, s.mek) # mekLen
        THEN LET c == clearLockedUnsafe(m) IN Rejected(c.sess, c.heap, "invalid state")
        ELSE IF nonce \in s.nonces
        THEN Rejected([s EXCEPT !.noncesNil = FALSE], h, "nonce_replayed")
        ELSE Accepted(s, h, nonce, t)

\* sessionErrorResponse
sessionErrorCode(err) ==
    CASE err = "nonce_replayed" -> "NONCE_REPLAY"
      [] err = "expired"        -> "SESSION_EXPIRED"
      [] err = "invalid state"  -> "INVALID_STATE"
      [] OTHER                  -> "UNAUTHORIZED"

-----------------------------------------------------------------------------
(* domaincheck *)

\* strings.ToLower on the strings the model uses.
ToLower(str) ==
    CASE str = "Example.COM"           -> "example.com"
      [] str = "Login.Example.com"     -> "login.example.com"
      [] str = "Login.Example.com:443" -> "login.example.com:443"
      [] OTHER                         -> str

\* strings.EqualFold
EqualFold(a, b) == ToLower(a) = ToLower(b)

\* domaincheck.sanitizeHost: trim, drop one trailing dot, cut at the first
\* colon, lowercase.
sanitizeHost(host) ==
    CASE host = "Login.Example.com:443" -> "login.example.com"
      [] host = "login.example.com."    -> "login.example.com"
      [] OTHER                          -> ToLower(host)

\* publicsuffix.EffectiveTLDPlusOne on a sanitized host.
EffectiveTLDPlusOne(host) ==
    CASE host = "login.example.com" -> [err |-> "", etld1 |-> "example.com"]
      [] host = "example.com"       -> [err |-> "", etld1 |-> "example.com"]
      [] host = "evil.example.org"  -> [err |-> "", etld1 |-> "example.org"]
      [] host = "xn--exmple-cua.com" -> [err |-> "", etld1 |-> "xn--exmple-cua.com"]
      [] OTHER                      -> [err |-> "no etld+1", etld1 |-> ""]

\* domaincheck.ETLDPlusOne
ETLDPlusOne(host) == EffectiveTLDPlusOne(sanitizeHost(host))

\* A variant of AllowAutofill that normalises the stored host only.
AllowAutofill_halfSanitized(savedETLD1, host, requireExactHost, exactHost) ==
    LET e == ETLDPlusOne(host) IN
    IF e.err # "" THEN FALSE
    ELSE IF ~EqualFold(e.etld1, savedETLD1) THEN FALSE
    ELSE IF requireExactHost
            /\ (exactHost = "" \/ host # sanitizeHost(exactHost))
         THEN FALSE
    ELSE TRUE

\* A gate that lets every page through.
AllowAutofill_open(savedETLD1, host, requireExactHost, exactHost) == TRUE

\* domaincheck.AllowAutofill
AllowAutofill(savedETLD1, host, requireExactHost, exactHost) ==
    LET e == ETLDPlusOne(host) IN
    IF e.err # "" THEN FALSE
    ELSE IF ~EqualFold(e.etld1, savedETLD1) THEN FALSE
    ELSE IF requireExactHost
            /\ (exactHost = ""
                \/ ~EqualFold(sanitizeHost(host), sanitizeHost(exactHost)))
         THEN FALSE
    ELSE TRUE

-----------------------------------------------------------------------------
(* native-host/phishing.go: the verdict of phishingCheck *)

\* The hosts (with an optional port) that pages of the model are served from.
\* xn--exmple-cua.com is the ASCII form of "example.com" spelled with U+00E4.
PageHosts ==
    {"login.example.com", "Login.Example.com:443", "example.com",
     "evil.example.org", "localhost", "xn--exmple-cua.com"}

\* url.URL.Hostname: the host without its port.
Hostname(hostport) ==
    IF hostport = "Login.Example.com:443" THEN "Login.Example.com" ELSE hostport

\* url.Parse on the URLs scheme://host/ of the model; anything else does not
\* parse into a URL with a host.
urlParse(rawURL) ==
    LET known == {[Scheme |-> sc, Host |-> h] : sc \in {"https", "http"}, h \in PageHosts}
        hit   == {u \in known : rawURL = u.Scheme \o "://" \o u.Host \o "/"}
    IN  IF hit = {} THEN [err |-> "parse", Scheme |-> "", Hostname |-> ""]
        ELSE LET u == CHOOSE u \in hit : TRUE
             IN  [err |-> "", Scheme |-> u.Scheme, Hostname |-> Hostname(u.Host)]

\* idna.Lookup.ToASCII on a lowercased host: ASCII names are kept.
idnaToASCII(host) == [err |-> "", converted |-> host]

\* idna.Lookup.ToUnicode: an xn-- label is decoded.
idnaToUnicode(host) ==
    IF host = "xn--exmple-cua.com" THEN [err |-> "", converted |-> "ex<U+00E4>mple.com"]
    ELSE [err |-> "", converted |-> host]

\* detectScript over the letters of a host: every host of the model is
\* written in Latin letters (U+00E4 included).
ScriptsOf(host) == IF host = "" THEN {} ELSE {"latin"}

\* hasMixedScript
hasMixedScript(host) == host # "" /\ Cardinality(ScriptsOf(host)) >= 2

\* strings.Contains(hostLower, "xn--")
ContainsACE(host) == host = "xn--exmple-cua.com"

\* confusables.Normalize and confusables.ContainsHomoglyphs on the eTLD+1
\* names of the model, which are ASCII: each is its own skeleton and holds no
\* homoglyph.
confusablesNormalize(str) == str
ContainsHomoglyphs(str) == FALSE

\* looksConfusable
looksConfusable(target, candidate) ==
    IF target = "" \/ candidate = "" \/ target = candidate THEN FALSE
    ELSE IF ToLower(confusablesNormalize(target)) # ToLower(confusablesNormalize(candidate))
    THEN FALSE
    ELSE ContainsHomoglyphs(target) \/ ContainsHomoglyphs(candidate)

\* evaluatePhishingCheck
evaluatePhishingCheck(rawURL, savedETLD1, exactHost) ==
    LET parsed == urlParse(rawURL) IN
    IF parsed.err # "" \/ parsed.Hostname = ""
    THEN [OK |-> FALSE, Reasons |-> <<"URL_PARSE_ERROR">>, ETLD1 |-> ""]
    ELSE
    LET hostLower   == ToLower(parsed.Hostname)
        a           == idnaToASCII(hostLower)
        asciiHost   == IF a.err = "" /\ a.converted # "" THEN a.converted ELSE hostLower
        u           == idnaToUnicode(hostLower)
        unicodeHost == IF u.err = "" /\ u.converted # "" THEN u.converted ELSE hostLower
        e1          == EffectiveTLDPlusOne(asciiHost)
        e2          == EffectiveTLDPlusOne(unicodeHost)
        etld1       == IF e1.err = "" THEN ToLower(e1.etld1)
                       ELSE IF e2.err = "" THEN ToLower(e2.etld1) ELSE ""
        saved       == ToLower(savedETLD1)
        reasons     ==
            (IF ~EqualFold(parsed.Scheme, "https") THEN <<"HTTP">> ELSE <<>>)
            \o (IF etld1 = "" THEN <<"ETLD_INVALID">> ELSE <<>>)
            \o (IF saved # "" /\ etld1 # "" /\ ~EqualFold(saved, etld1)
                THEN <<"ETLD_MISMATCH">> ELSE <<>>)
            \o (IF exactHost # "" /\ hostLower # "" /\ ~EqualFold(exactHost, hostLower)
                THEN <<"HOST_MISMATCH">> ELSE <<>>)
            \o (IF ContainsACE(hostLower) THEN <<"PUNYCODE">> ELSE <<>>)
            \o (IF hasMixedScript(unicodeHost) THEN <<"MIXED_SCRIPT">> ELSE <<>>)
            \o (IF saved # "" /\ etld1 # "" /\ looksConfusable(saved, etld1)
                THEN <<"CONFUSABLE">> ELSE <<>>)
    IN  [OK |-> reasons = <<>>, Reasons |-> reasons, ETLD1 |-> etld1]

-----------------------------------------------------------------------------
(* internal/vault: per-entry encryption *)

entryInfo == "entry-key-v1"

\* []byte(str): the bytes of a string.
StrBytes(str) == [len |-> Len(str), val |-> str]

\* krypto.HKDFSHA256(key, salt, info, outLen)
HKDFSHA256(key, salt, info, outLen) ==
    IF outLen <= 0 THEN [err |-> "invalid hkdf length", key |-> NoKey]
    ELSE [err |-> "",
          key |-> [kind |-> "hkdf", ikm |-> key, salt |-> salt, info |-> info,
                   len |-> outLen]]

NoCipher == [salt |-> [id |-> 0, len |-> 0], blob |-> [len |-> 0]]

\* vault.EncryptEntryPassword(mek, ..., plaintext): k numbers the CSPRNG draw
\* of the salt and of the AES-GCM nonce; randOK says whether rand.Read succeeds.
\* The blob is nonce || ciphertext || tag.
EncryptEntryPassword(mek, plaintext, randOK, k) ==
    IF mek.len # mekLen THEN [err |-> "invalid MEK length"] @@ NoCipher
    ELSE IF ~randOK THEN [err |-> "generate entry salt"] @@ NoCipher
    ELSE LET salt  == [id |-> k, len |-> entrySaltLen]
             d     == HKDFSHA256(mek, salt, entryInfo, mekLen)
             nonce == [id |-> k, len |-> gcmNonceSize]
             pt    == StrBytes(plaintext)
         IN  [err  |-> "",
              salt |-> salt,
              blob |-> [len   |-> gcmNonceSize + pt.len + 16,
                        nonce |-> nonce,
                        ct    |-> Seal(d.key, nonce, pt, "")]]

\* A DecryptEntryPassword that re-encrypts an empty string in place of the
\* password it recovered.
DecryptEntryPassword_forgetful(mek, salt, blob, randOK, k) ==
    IF mek.len # mekLen THEN [err |-> "invalid MEK length"]
    ELSE IF salt.len # entrySaltLen THEN [err |-> "invalid entry salt length"]
    ELSE IF blob.len <= gcmNonceSize THEN [err |-> "encrypted blob too short"]
    ELSE LET d == HKDFSHA256(mek, salt, entryInfo, mekLen)
             p == DecryptAESGCM(d.key, blob.nonce, blob.ct, "")
         IN  IF p.err # "" THEN [err |-> "decrypt entry password"]
             ELSE LET r == EncryptEntryPassword(mek, "", randOK, k)
                  IN  IF r.err # "" THEN [err |-> "reencrypt entry password"]
                      ELSE [err |-> "", plaintext |-> p.pt.val,
                            newSalt |-> r.salt, newBlob |-> r.blob]

\* vault.DecryptEntryPassword(mek, ..., salt, blob): the plaintext and the
\* rotated (salt, blob) produced by re-encrypting it.
DecryptEntryPassword(mek, salt, blob, randOK, k) ==
    IF mek.len # mekLen THEN [err |-> "invalid MEK length"]
    ELSE IF salt.len # entrySaltLen THEN [err |-> "invalid entry salt length"]
    ELSE IF blob.len <= gcmNonceSize THEN [err |-> "encrypted blob too short"]
    ELSE LET d == HKDFSHA256(mek, salt, entryInfo, mekLen)
             p == DecryptAESGCM(d.key, blob.nonce, blob.ct, "")
         IN  IF p.err # "" THEN [err |-> "decrypt entry password"]
             ELSE LET pwd == p.pt.val
                      r   == EncryptEntryPassword(mek, pwd, randOK, k)
                  IN  IF r.err # "" THEN [err |-> "reencrypt entry password"]
                      ELSE [err |-> "", plaintext |-> pwd,
                            newSalt |-> r.salt, newBlob |-> r.blob]

-----------------------------------------------------------------------------
(* internal/db: vault.db *)

\* A vault.db is its rows, the next AUTOINCREMENT id, and whether the schema
\* holds a uniqueness constraint on (website, username).  Of updated_at a
\* row carries how many UPDATE statements have set it to CURRENT_TIMESTAMP
\* since the INSERT: it changes exactly when the column is written.

\* The passwords table right after db.Migrate created it: UNIQUE(website,
\* username) and the index uniq_passwords_site_user.
EmptyDB == [rows |-> {}, nextId |-> 1, unique |-> TRUE]

\* The passwords table right after vault.Open (ensureSchema) created it: the
\* same columns, no uniqueness constraint.
PlainDB == [rows |-> {}, nextId |-> 1, unique |-> FALSE]

\* vault.Open: the file and the table are created when missing (CREATE TABLE
\* IF NOT EXISTS leaves an existing table as it is).
vaultOpen(d, dir) ==
    IF dir \in DOMAIN d THEN d ELSE (dir :> PlainDB) @@ d

\* Two rows of the table share (website, username).
HasDuplicates(db) ==
    \E r, q \in db.rows : r.id # q.id /\ r.website = q.website /\ r.username = q.username

\* db.Migrate on an existing table: CREATE TABLE IF NOT EXISTS does nothing;
\* CREATE UNIQUE INDEX IF NOT EXISTS fails when the rows already hold a
\* duplicate pair, and otherwise makes the pair unique from then on.
Migrate(db) ==
    IF db.unique THEN [err |-> "", db |-> db]
    ELSE IF HasDuplicates(db) THEN [err |-> "migrate schema", db |-> db]
    ELSE [err |-> "", db |-> [db EXCEPT !.unique = TRUE]]

\* db.Open followed by db.Migrate: the file and the table are created when
\* missing.
OpenAndMigrate(d, dir) ==
    IF dir \in DOMAIN d
    THEN LET m == Migrate(d[dir])
         IN  [err |-> m.err, dbs |-> [d EXCEPT ![dir] = m.db]]
    ELSE [err |-> "", dbs |-> (dir :> EmptyDB) @@ d]

\* INSERT INTO passwords (encrypted_pass, salt, website, username, type):
\* refused when the schema makes the pair unique and a row holds it;
\* AUTOINCREMENT id; updated_at takes its default.
InsertEntry(db, website, username, typ, salt, enc) ==
    IF db.unique /\ \E r \in db.rows : r.website = website /\ r.username = username
    THEN [err |-> "insert entry", db |-> db, id |-> 0]
    ELSE [err |-> "",
          db  |-> [db EXCEPT
                     !.rows   = @ \cup {[id |-> db.nextId, website |-> website,
                                         username |-> username, type |-> typ,
                                         salt |-> salt, blob |-> enc, updated |-> 0]},
                     !.nextId = @ + 1],
          id  |-> db.nextId]

\* db.UpdateEntryCipher: UPDATE ... SET encrypted_pass, salt, type,
\* updated_at = CURRENT_TIMESTAMP WHERE id = ?
UpdateEntryCipher(db, id, typ, salt, enc) ==
    [db EXCEPT !.rows = {IF r.id = id
                         THEN [r EXCEPT !.type = typ, !.salt = salt, !.blob = enc,
                                        !.updated = @ + 1]
                         ELSE r : r \in db.rows}]

\* The byte order of the usernames the model uses (ORDER BY username).
UserRank(u) == CASE u = "alice" -> 1 [] u = "bob" -> 2 [] OTHER -> 0

\* db.GetEntryByWebsite: the rows of the site, ordered by username.
RECURSIVE SortByUser(_)
SortByUser(rows) ==
    IF rows = {} THEN <<>>
    ELSE LET first == CHOOSE r \in rows :
                          \A q \in rows : UserRank(r.username) <= UserRank(q.username)
         IN  <<first>> \o SortByUser(rows \ {first})

\* A GetEntryByWebsite whose query says ORDER BY username DESC.
GetEntryByWebsite_descending(db, website) ==
    LET rows == SortByUser({r \in db.rows : r.website = website})
    IN  [i \in 1..Len(rows) |-> rows[Len(rows) + 1 - i]]

GetEntryByWebsite(db, website) ==
    SortByUser({r \in db.rows : r.website = website})

\* A lookup that compares the website without regard to case.
GetEntryBySiteAndUser_folding(db, website, username) ==
    {r \in db.rows : ToLower(r.website) = ToLower(website) /\ r.username = username}

\* db.GetEntryBySiteAndUser: the set holding the matching row, or {} (ErrNoRows).
GetEntryBySiteAndUser(db, website, username) ==
    {r \in db.rows : r.website = website /\ r.username = username}

-----------------------------------------------------------------------------
(* native-host: responses and handlers *)

version == "0.1.0"

NoData == [kind |-> "none"]

Fail(code, message) ==
    [ok |-> FALSE, code |-> code, message |-> message, data |-> NoData]

Ok(data) == [ok |-> TRUE, code |-> "", message |-> "", data |-> data]

\* What a handler returns is its response together with the state it leaves:
\* st carries sess, heap, dbs, issued, rng; ret is what validateRequest
\* returned to the handler (NoRet when the handler did not call it).
NoRet == [called |-> FALSE, err |-> "", dir |-> "", mek |-> NoBytes]

Returned(v) ==
    [called |-> TRUE, err |-> v.err, dir |-> v.dir,
     mek |-> IF v.mek = Nil THEN NoBytes ELSE v.heap[v.mek]]

Outcome(st, r, rt) ==
    LET c == Collect(st.heap, st.sess)
    IN  [sess |-> c.sess, heap |-> c.heap, dbs |-> st.dbs, issued |-> st.issued,
         rng |-> st.rng, resp |-> r, ret |-> rt]

\* A variant of handleUnlock that leaves the session alone until establish
\* replaces it.
handleUnlock_lazy(st, rq, randOK, t, e) ==
    IF IsBlank(rq.dir)
    THEN Outcome(st, Fail("BAD_REQUEST", "vault directory required"), NoRet)
    ELSE
    LET st1 == st
        bad == Outcome(st1, Fail("UNLOCK_FAILED", "unlock failed"), NoRet)
    IN
    IF rq.masterPassword = ""
    THEN Outcome(st1, Fail("BAD_REQUEST", "master password required"), NoRet)
    ELSE
    LET dir == Abs(rq.dir)
        l   == LoadVaultHeader(dir)
    IN
    IF l.err # "" THEN bad
    ELSE IF l.hdr.KDF.Name # "argon2id" \/ l.hdr.Salt.kind = "empty" THEN bad
    ELSE
    LET salt == DecodeString(l.hdr.Salt) IN
    IF salt.err # "" THEN bad
    ELSE
    LET k == DeriveKeyArgon2id(rq.masterPassword, salt.raw, l.hdr.KDF) IN
    IF k.err # "" THEN bad
    ELSE
    LET u == LoadAndUnwrapMEK(dir, k.key) IN
    IF u.err # "" THEN bad
    ELSE
    LET mek == NewAddr(st1.heap)
        h2  == Alloc(st1.heap, u.mek)
        est == establish([sess |-> st1.sess, heap |-> h2], dir, mek, randOK,
                         st.issued + 1, t, e)
        h3  == zeroize(est.heap, mek)
        st2 == [st1 EXCEPT !.sess = est.sess, !.heap = h3,
                           !.issued = IF est.err = "" THEN @ + 1 ELSE @]
    IN
    IF est.err # "" THEN Outcome(st2, Fail("INTERNAL", "unlock failed"), NoRet)
    ELSE Outcome(st2, Ok([kind |-> "unlock", token |-> est.token,
                          ttlSeconds |-> est.ttl]), NoRet)

\* handleUnlock
handleUnlock(st, rq, randOK, t, e) ==
    IF IsBlank(rq.dir)
    THEN Outcome(st, Fail("BAD_REQUEST", "vault directory required"), NoRet)
    ELSE
    LET c   == clear([sess |-> st.sess, heap |-> st.heap])
        st1 == [st EXCEPT !.sess = c.sess, !.heap = c.heap]
        bad == Outcome(st1, Fail("UNLOCK_FAILED", "unlock failed"), NoRet)
    IN
    IF rq.masterPassword = ""
    THEN Outcome(st1, Fail("BAD_REQUEST", "master password required"), NoRet)
    ELSE
    LET dir == Abs(rq.dir)
        l   == LoadVaultHeader(dir)
    IN
    IF l.err # "" THEN bad
    ELSE IF l.hdr.KDF.Name # "argon2id" \/ l.hdr.Salt.kind = "empty" THEN bad
    ELSE
    LET salt == DecodeString(l.hdr.Salt) IN
    IF salt.err # "" THEN bad
    ELSE
    LET k == DeriveKeyArgon2id(rq.masterPassword, salt.raw, l.hdr.KDF) IN
    IF k.err # "" THEN bad
    ELSE
    LET u == LoadAndUnwrapMEK(dir, k.key) IN
    IF u.err # "" THEN bad
    ELSE
    LET mek == NewAddr(st1.heap)
        h2  == Alloc(st1.heap, u.mek)
        est == establish([sess |-> st1.sess, heap |-> h2], dir, mek, randOK,
                         st.issued + 1, t, e)
        h3  == zeroize(est.heap, mek)
        st2 == [st1 EXCEPT !.sess = est.sess, !.heap = h3,
                           !.issued = IF est.err = "" THEN @ + 1 ELSE @]
    IN
    IF est.err # "" THEN Outcome(st2, Fail("INTERNAL", "unlock failed"), NoRet)
    ELSE Outcome(st2, Ok([kind |-> "unlock", token |-> est.token,
                          ttlSeconds |-> est.ttl]), NoRet)

\* A variant of the lock case that validates and answers without clearing.
handleLock_answering(st, rq, t, e) ==
    LET v   == validateRequest([sess |-> st.sess, heap |-> st.heap],
                               rq.sessionToken, rq.nonce, t, e)
        st1 == [st EXCEPT !.sess = v.sess, !.heap = v.heap]
    IN
    IF v.err # "" THEN Outcome(st1, Fail(sessionErrorCode(v.err), ""), Returned(v))
    ELSE Outcome([st1 EXCEPT !.heap = zeroize(v.heap, v.mek)], Ok(NoData), Returned(v))

\* handleRequest, case "lock"
handleLock(st, rq, t, e) ==
    LET v   == validateRequest([sess |-> st.sess, heap |-> st.heap],
                               rq.sessionToken, rq.nonce, t, e)
        st1 == [st EXCEPT !.sess = v.sess, !.heap = v.heap]
    IN
    IF v.err # "" THEN Outcome(st1, Fail(sessionErrorCode(v.err), ""), Returned(v))
    ELSE
    LET h2 == zeroize(v.heap, v.mek)
        c  == clear([sess |-> v.sess, heap |-> h2])
    IN  Outcome([st1 EXCEPT !.sess = c.sess, !.heap = c.heap], Ok(NoData), Returned(v))

\* decryptRow: the item, and the database after the rotation was stored.
decryptRow(db, mek, row, randOK, k) ==
    LET d == DecryptEntryPassword(mek, row.salt, row.blob, randOK, k) IN
    IF d.err # "" THEN [ok |-> FALSE, db |-> db, item |-> <<>>]
    ELSE [ok   |-> TRUE,
          db   |-> IF d.newSalt.len > 0 /\ d.newBlob.len > 0
                   THEN UpdateEntryCipher(db, row.id, row.type, d.newSalt, d.newBlob)
                   ELSE db,
          item |-> <<[username |-> row.username, password |-> d.plaintext]>>]

\* The loop of handleGetCredentials over the rows of a site: the first row
\* that decrypts is returned and the loop ends.
RECURSIVE firstDecrypted(_, _, _, _, _)
firstDecrypted(db, mek, rows, randOK, k) ==
    IF rows = <<>> THEN [ok |-> FALSE, db |-> db, item |-> <<>>]
    ELSE LET d == decryptRow(db, mek, Head(rows), randOK, k)
         IN  IF d.ok THEN d ELSE firstDecrypted(db, mek, Tail(rows), randOK, k)

\* handleGetCredentials
handleGetCredentials(st, rq, randOK, dbOK, t, e) ==
    LET v   == validateRequest([sess |-> st.sess, heap |-> st.heap],
                               rq.sessionToken, rq.nonce, t, e)
        st1 == [st EXCEPT !.sess = v.sess, !.heap = v.heap]
    IN
    IF v.err # "" THEN Outcome(st1, Fail(sessionErrorCode(v.err), ""), Returned(v))
    ELSE
    LET mek == v.heap[v.mek]
        stz == [st1 EXCEPT !.heap = zeroize(v.heap, v.mek)]
    IN
    IF rq.domainEtld1 = "" \/ rq.exactHost = ""
    THEN Outcome(stz, Fail("BAD_REQUEST", ""), Returned(v))
    ELSE IF ~AllowAutofill(rq.domainEtld1, rq.exactHost, rq.requireExactHost, rq.exactHost)
    THEN Outcome(stz, Fail("ETLD_MISMATCH", ""), Returned(v))
    ELSE IF ~dbOK
    THEN Outcome(stz, Fail("DB_ERROR", "database unavailable"), Returned(v))
    ELSE
    LET m == OpenAndMigrate(st.dbs, v.dir) IN
    IF m.err # ""
    THEN Outcome(stz, Fail("DB_ERROR", "database unavailable"), Returned(v))
    ELSE
    LET d1 == m.dbs
        db == d1[v.dir]
        g  == IF ~IsBlank(rq.username)
              THEN LET found == GetEntryBySiteAndUser(db, rq.domainEtld1, rq.username)
                   IN  IF found = {} THEN [ok |-> FALSE, db |-> db, item |-> <<>>]
                       ELSE decryptRow(db, mek, CHOOSE r \in found : TRUE,
                                       randOK, st.rng + 1)
              ELSE firstDecrypted(db, mek, GetEntryByWebsite(db, rq.domainEtld1),
                                  randOK, st.rng + 1)
    IN  Outcome([stz EXCEPT !.dbs = [d1 EXCEPT ![v.dir] = g.db],
                            !.rng = IF g.ok THEN @ + 1 ELSE @],
                Ok([kind |-> "items", items |-> g.item]), Returned(v))

\* handleSaveCredential
handleSaveCredential(st, rq, randOK, dbOK, t, e) ==
    LET v   == validateRequest([sess |-> st.sess, heap |-> st.heap],
                               rq.sessionToken, rq.nonce, t, e)
        st1 == [st EXCEPT !.sess = v.sess, !.heap = v.heap]
    IN
    IF v.err # "" THEN Outcome(st1, Fail(sessionErrorCode(v.err), ""), Returned(v))
    ELSE
    LET mek == v.heap[v.mek]
        stz == [st1 EXCEPT !.heap = zeroize(v.heap, v.mek)]
    IN
    IF rq.domainEtld1 = "" \/ rq.exactHost = "" \/ IsBlank(rq.username)
       \/ rq.password = ""
    THEN Outcome(stz, Fail("BAD_REQUEST", ""), Returned(v))
    ELSE IF ~AllowAutofill(rq.domainEtld1, rq.exactHost, rq.requireExactHost, rq.exactHost)
    THEN Outcome(stz, Fail("ETLD_MISMATCH", ""), Returned(v))
    ELSE IF ~dbOK
    THEN Outcome(stz, Fail("DB_ERROR", "database unavailable"), Returned(v))
    ELSE
    LET m == OpenAndMigrate(st.dbs, v.dir) IN
    IF m.err # ""
    THEN Outcome(stz, Fail("DB_ERROR", "database unavailable"), Returned(v))
    ELSE
    LET d1  == m.dbs
        enc == EncryptEntryPassword(mek, rq.password, randOK, st.rng + 1)
        std == [stz EXCEPT !.dbs = d1]
    IN
    IF enc.err # "" THEN Outcome(std, Fail("ENCRYPT_FAILED", ""), Returned(v))
    ELSE
    LET ins == InsertEntry(d1[v.dir], rq.domainEtld1, rq.username, "password",
                           enc.salt, enc.blob)
        ste == [std EXCEPT !.rng = @ + 1]
    IN
    IF ins.err # ""
    THEN Outcome(ste, Fail("DB_ERROR", "database unavailable"), Returned(v))
    ELSE Outcome([ste EXCEPT !.dbs = [d1 EXCEPT ![v.dir] = ins.db]],
                 Ok([kind |-> "saved", saved |-> TRUE, id |-> ins.id]), Returned(v))

\* handlePhishingCheck: the verdict, in a successful response.
handlePhishingCheck(st, rq) ==
    Outcome(st, Ok([kind |-> "verdict"]
                   @@ evaluatePhishingCheck(rq.url, rq.savedEtld1, rq.exactHost)),
            NoRet)

\* handleRequest: the dispatch on the envelope's type.  rq.json says whether the
\* payload parses as JSON into the request struct of its type.
handleRequest(st, rq, randOK, dbOK, t, e) ==
    IF ~rq.json THEN Outcome(st, Fail("BAD_JSON", "invalid json"), NoRet)
    ELSE CASE rq.type = "health" ->
                Outcome(st, Ok([kind |-> "health", version |-> version]), NoRet)
           [] rq.type = "unlock" -> handleUnlock(st, rq, randOK, t, e)
           [] rq.type = "lock" -> handleLock(st, rq, t, e)
           [] rq.type = "getCredentials" ->
                handleGetCredentials(st, rq, randOK, dbOK, t, e)
           [] rq.type = "saveCredential" ->
                handleSaveCredential(st, rq, randOK, dbOK, t, e)
           [] rq.type = "phishingCheck" -> handlePhishingCheck(st, rq)
           [] OTHER -> Outcome(st, Fail("UNSUPPORTED", "unsupported command"), NoRet)

-----------------------------------------------------------------------------
(* auth: the master password policy *)

\* The passwords a user may choose as a new master password: two that meet
\* the policy, one long enough but without an uppercase letter, a digit or a
\* high enough score, one too short.
StrongPasswords == {"Correct-Horse-9!", "Zr7!q-LongerPass#42"}
NewPasswords    == StrongPasswords \cup {"correct-horse-battery", "weak", ""}

\* hasUpper, hasDigit, hasSpecial and zxcvbn.PasswordStrength(pw).Score on the
\* passwords of the model.
hasUpper(pw)    == pw \in StrongPasswords
hasDigit(pw)    == pw \in StrongPasswords \cup {"pw1"}
hasSpecial(pw)  == pw \in StrongPasswords \cup {"correct-horse-battery"}
zxcvbnScore(pw) == IF pw \in StrongPasswords THEN 4 ELSE 1

\* auth.ValidateMasterPasswordAdvanced with the options every caller passes
\* (MinLength 12, RequireLUDS, MinZXCVBNScore 3, EnableHIBP): "" when the
\* password is accepted.  hibpOK says whether the breach lookup could be made;
\* no password of the model is in a breach list.
ValidateMasterPasswordAdvanced(pw, hibpOK) ==
    IF Len(pw) < 12 THEN "password too short"
    ELSE IF ~hasUpper(pw) THEN "password must include an uppercase letter"
    ELSE IF ~hasDigit(pw) THEN "password must include a digit"
    ELSE IF ~hasSpecial(pw) THEN "password must include a special character"
    ELSE IF zxcvbnScore(pw) < 3 THEN "password too weak"
    ELSE IF ~hibpOK THEN "hibp lookup failed"
    ELSE ""

-----------------------------------------------------------------------------
(* store: writing header.json *)

\* What can go wrong while a header is replaced: nothing; rand.Read failing;
\* the breach lookup failing; CreateTemp, Write or Rename failing; the
\* process being killed after the temporary file was written and before the
\* rename.
HeaderFaults == {"none", "rand", "hibp", "temp", "write", "rename", "crash"}

\* A SaveVaultHeader that writes header.json in place: a failed write, or a
\* kill during it, leaves a file that is not JSON.
SaveVaultHeader_inplace(h, dir, hdr, fault) ==
    IF fault = "temp" THEN [err |-> "create temp header", headers |-> h]
    ELSE IF fault \in {"write", "crash"}
    THEN [err     |-> IF fault = "crash" THEN "killed" ELSE "write temp header",
          headers |-> (dir :> [json |-> FALSE, hdr |-> hdr]) @@ h]
    ELSE [err |-> "", headers |-> (dir :> [json |-> TRUE, hdr |-> hdr]) @@ h]

\* The points of SaveVaultHeader at which the process can be killed: after
\* CreateTemp, after Write, after Chmod, after Close and before Rename
\* ("crash"), after Rename.
KillPoints == {"kill-create", "kill-write", "kill-chmod", "crash", "kill-renamed"}

\* A SaveVaultHeader that opens header.json itself, truncating it, and writes
\* the header there: a kill between the two leaves what was written so far.
SaveVaultHeader_truncating(h, dir, hdr, fault) ==
    IF fault = "temp" THEN [err |-> "create temp header", headers |-> h]
    ELSE IF fault \in {"write", "rename"}
    THEN [err |-> "write header", headers |-> (dir :> [json |-> FALSE, hdr |-> hdr]) @@ h]
    ELSE IF fault \in {"kill-create", "kill-write"}
    THEN [err |-> "killed", headers |-> (dir :> [json |-> FALSE, hdr |-> hdr]) @@ h]
    ELSE [err     |-> IF fault \in KillPoints THEN "killed" ELSE "",
          headers |-> (dir :> [json |-> TRUE, hdr |-> hdr]) @@ h]

\* store.SaveVaultHeader: the header is written to a temporary file of the
\* directory, which then replaces header.json by os.Rename; on every failure
\* before that the temporary file is removed and header.json is as it was.
\* A process killed before the rename leaves header.json as it was (and the
\* temporary file beside it); one killed after it leaves the new header.
SaveVaultHeader(h, dir, hdr, fault) ==
    IF fault = "temp" THEN [err |-> "create temp header", headers |-> h]
    ELSE IF fault = "write" THEN [err |-> "write temp header", headers |-> h]
    ELSE IF fault \in {"kill-create", "kill-write", "kill-chmod", "crash"}
    THEN [err |-> "killed", headers |-> h]
    ELSE IF fault = "rename" THEN [err |-> "replace header", headers |-> h]
    ELSE [err     |-> IF fault = "kill-renamed" THEN "killed" ELSE "",
          headers |-> (dir :> [json |-> TRUE, hdr |-> hdr]) @@ h]

\* A RewrapMEK that wraps a key of zero bytes in place of the MEK.
RewrapMEK_zeroKey(h, dir, hdr, newPDK, mek, k, fault) ==
    LET nonce == [id |-> k, len |-> gcmNonceSize]
    IN  SaveVaultHeader(h, dir,
            [hdr EXCEPT !.WrapNonce  = B64(nonce),
                        !.WrappedMEK = B64(Seal(newPDK, nonce, zeroizeBytes(mek),
                                                headerMEKAAD))],
            fault)

\* store.RewrapMEK: the MEK sealed under newPDK with a new nonce (draw k), and
\* the header saved.
RewrapMEK(h, dir, hdr, newPDK, mek, k, fault) ==
    IF newPDK.len # mekLen THEN [err |-> "invalid PDK length", headers |-> h]
    ELSE IF mek.len # mekLen THEN [err |-> "invalid MEK length", headers |-> h]
    ELSE IF hdr.Version # 1 THEN [err |-> "unsupported header version", headers |-> h]
    ELSE IF hdr.KDF.Name # "argon2id" THEN [err |-> "unsupported kdf", headers |-> h]
    ELSE IF fault = "rand" THEN [err |-> "rewrap mek", headers |-> h]
    ELSE LET nonce == [id |-> k, len |-> gcmNonceSize]
         IN  SaveVaultHeader(h, dir,
                 [hdr EXCEPT !.WrapNonce  = B64(nonce),
                             !.WrappedMEK = B64(Seal(newPDK, nonce, mek, headerMEKAAD))],
                 fault)

\* krypto.NewRandomSalt: draw k of the CSPRNG.
NewRandomSalt(k, randOK) ==
    IF ~randOK THEN [err |-> "generate salt", salt |-> [id |-> 0, len |-> 0]]
    ELSE [err |-> "", salt |-> [id |-> k, len |-> expectedSaltSz]]

-----------------------------------------------------------------------------
(* internal/service: the Service facade *)

\* No Service made yet.  svc.mek = NoBytes is the nil s.mek of a locked vault.
NoService == [open |-> FALSE, dir |-> "", mek |-> NoBytes]

\* service.New: vault.Open on vaultDir/vault.db.
ServiceNew(d, vaultDir) ==
    [dbs |-> vaultOpen(d, vaultDir),
     svc |-> [open |-> TRUE, dir |-> vaultDir, mek |-> NoBytes]]

\* service.buildKDF
buildKDF(hdr) ==
    LET s == DecodeString(hdr.Salt)
    IN  IF s.err # "" THEN [err |-> "decode salt", params |-> hdr.KDF, salt |-> s.raw]
        ELSE [err |-> "", params |-> hdr.KDF, salt |-> s.raw]

\* Service.Unlock, on a machine where the biometric gate is off.
ServiceUnlock(dir, master) ==
    LET l == LoadVaultHeader(dir) IN
    IF l.err # "" THEN [err |-> "load header", mek |-> NoBytes]
    ELSE
    LET b == buildKDF(l.hdr) IN
    IF b.err # "" THEN [err |-> b.err, mek |-> NoBytes]
    ELSE
    LET k == DeriveKeyArgon2id(master, b.salt, b.params) IN
    IF k.err # "" THEN [err |-> "derive PDK", mek |-> NoBytes]
    ELSE
    LET u == LoadAndUnwrapMEK(dir, k.key) IN
    IF u.err # "" THEN [err |-> "unwrap MEK", mek |-> NoBytes]
    ELSE [err |-> "", mek |-> u.mek]

\* Service.ChangeMaster: k numbers the draw of the new salt and of the new
\* wrap nonce.  The result carries header.json of every directory as the call
\* leaves it, and the MEK the Service holds afterwards (setMEK).
ChangeMaster(dir, held, oldMaster, newMaster, fault, k) ==
    LET same(e) == [err |-> e, headers |-> headers, mek |-> held] IN
    IF oldMaster = "" \/ newMaster = ""
    THEN same("old and new master passwords are required")
    ELSE
    LET p == ValidateMasterPasswordAdvanced(newMaster, fault # "hibp") IN
    IF p # "" THEN same("validate new master password")
    ELSE
    LET l == LoadVaultHeader(dir) IN
    IF l.err # "" THEN same("load header")
    ELSE
    LET b == buildKDF(l.hdr) IN
    IF b.err # "" THEN same(b.err)
    ELSE
    LET oldPDK == DeriveKeyArgon2id(oldMaster, b.salt, b.params) IN
    IF oldPDK.err # "" THEN same("derive old PDK")
    ELSE
    LET u == LoadAndUnwrapMEK(dir, oldPDK.key) IN
    IF u.err # "" THEN same("verify old master password")
    ELSE
    LET n == NewRandomSalt(k, fault # "rand") IN
    IF n.err # "" THEN same("generate new salt")
    ELSE
    LET newPDK == DeriveKeyArgon2id(newMaster, n.salt, b.params) IN
    IF newPDK.err # "" THEN same("derive new PDK")
    ELSE
    LET hdrCurrent == [l.hdr EXCEPT !.Salt = B64(n.salt), !.KDF.Name = "argon2id"]
        w == RewrapMEK(headers, dir, hdrCurrent, newPDK.key, u.mek, k, fault)
    IN  IF w.err # "" THEN [err |-> IF w.err = "killed" THEN "killed" ELSE "rewrap mek",
                            headers |-> w.headers, mek |-> held]
        ELSE [err |-> "", headers |-> w.headers, mek |-> u.mek]

\* The row a QueryRow over (website, username) scans: the first of the
\* matching rows in rowid order.
FirstRow(rows) == CHOOSE r \in rows : \A q \in rows : r.id <= q.id

\* Service.Add
ServiceAdd(db, mek, website, username, plaintext, randOK, k) ==
    IF mek = NoBytes THEN [err |-> "vault locked", db |-> db, drew |-> FALSE]
    ELSE IF website = "" \/ username = ""
    THEN [err |-> "website and username required", db |-> db, drew |-> FALSE]
    ELSE IF plaintext = ""
    THEN [err |-> "password cannot be empty", db |-> db, drew |-> FALSE]
    ELSE
    LET enc == EncryptEntryPassword(mek, plaintext, randOK, k) IN
    IF enc.err # "" THEN [err |-> "encrypt", db |-> db, drew |-> FALSE]
    ELSE
    LET ins == InsertEntry(db, website, username, "password", enc.salt, enc.blob)
    IN  IF ins.err # "" THEN [err |-> "insert entry", db |-> db, drew |-> TRUE]
        ELSE [err |-> "", db |-> ins.db, drew |-> TRUE]

\* UPDATE passwords SET encrypted_pass, salt, updated_at = CURRENT_TIMESTAMP
\* WHERE id = ?: the statement of Service.Get, which leaves type alone.
UpdateCipher(db, id, salt, enc) ==
    [db EXCEPT !.rows = {IF r.id = id
                         THEN [r EXCEPT !.salt = salt, !.blob = enc, !.updated = @ + 1]
                         ELSE r : r \in db.rows}]

\* A Service.Get that stores what the rotation produced whether or not the
\* decryption succeeded.
ServiceGet_storing(db, mek, website, username, randOK, k, ioOK) ==
    LET found == GetEntryBySiteAndUser(db, website, username) IN
    IF mek = NoBytes \/ found = {}
    THEN [err |-> "not found", db |-> db, plain |-> "", drew |-> FALSE]
    ELSE
    LET r == FirstRow(found)
        d == DecryptEntryPassword(mek, r.salt, r.blob, randOK, k)
    IN  IF d.err # ""
        THEN [err |-> "decrypt", db |-> UpdateCipher(db, r.id, NoCipher.salt, NoCipher.blob),
              plain |-> "", drew |-> FALSE]
        ELSE [err |-> "", db |-> UpdateCipher(db, r.id, d.newSalt, d.newBlob),
              plain |-> d.plaintext, drew |-> TRUE]

\* Service.Get from the row r its SELECT returned: the decryption, and the
\* UPDATE ... WHERE id = ? that stores the rotation in db, the vault.db of
\* that moment.
ServiceGetRotate(db, mek, r, randOK, k, ioOK) ==
    LET d == DecryptEntryPassword(mek, r.salt, r.blob, randOK, k)
    IN  IF d.err # "" THEN [err |-> "decrypt", db |-> db, plain |-> "", drew |-> FALSE]
        ELSE IF d.newSalt # r.salt \/ d.newBlob # r.blob
        THEN IF ~ioOK
             THEN [err |-> "rotation persisted partially", db |-> db,
                   plain |-> d.plaintext, drew |-> TRUE]
             ELSE [err |-> "", db |-> UpdateCipher(db, r.id, d.newSalt, d.newBlob),
                   plain |-> d.plaintext, drew |-> TRUE]
        ELSE [err |-> "", db |-> db, plain |-> d.plaintext, drew |-> TRUE]

\* Service.Get: ioOK says whether the UPDATE that stores the rotation succeeds.
ServiceGet(db, mek, website, username, randOK, k, ioOK) ==
    IF mek = NoBytes THEN [err |-> "vault locked", db |-> db, plain |-> "", drew |-> FALSE]
    ELSE
    LET found == GetEntryBySiteAndUser(db, website, username) IN
    IF found = {} THEN [err |-> "not found", db |-> db, plain |-> "", drew |-> FALSE]
    ELSE
    ServiceGetRotate(db, mek, FirstRow(found), randOK, k, ioOK)

\* Service.Update
ServiceUpdate(db, mek, website, username, newType, newPlaintext, randOK, k) ==
    IF mek = NoBytes THEN [err |-> "vault locked", db |-> db, drew |-> FALSE]
    ELSE IF website = "" \/ username = ""
    THEN [err |-> "website and username required", db |-> db, drew |-> FALSE]
    ELSE IF newPlaintext = ""
    THEN [err |-> "new password cannot be empty", db |-> db, drew |-> FALSE]
    ELSE
    LET found == GetEntryBySiteAndUser(db, website, username) IN
    IF found = {} THEN [err |-> "not found", db |-> db, drew |-> FALSE]
    ELSE
    LET r   == FirstRow(found)
        typ == IF newType # "" THEN newType ELSE r.type
        enc == EncryptEntryPassword(mek, newPlaintext, randOK, k)
    IN  IF enc.err # "" THEN [err |-> "encrypt", db |-> db, drew |-> FALSE]
        ELSE [err |-> "", db |-> UpdateEntryCipher(db, r.id, typ, enc.salt, enc.blob),
              drew |-> TRUE]

\* Service.Delete: DELETE FROM passwords WHERE website = ? AND username = ?
ServiceDelete(db, mek, website, username) ==
    IF mek = NoBytes THEN [err |-> "vault locked", db |-> db]
    ELSE IF website = "" \/ username = ""
    THEN [err |-> "website and username required", db |-> db]
    ELSE IF GetEntryBySiteAndUser(db, website, username) = {}
    THEN [err |-> "not found", db |-> db]
    ELSE [err |-> "",
          db  |-> [db EXCEPT !.rows = {r \in @ : ~(r.website = website
                                                  /\ r.username = username)}]]


\* The byte order of the websites the model uses (ORDER BY website).
SiteRank(w) == CASE w = "Example.COM" -> 1 [] w = "example.com" -> 2 [] OTHER -> 0

\* The rows in the order of ORDER BY website, username.
RECURSIVE SortBySiteAndUser(_)
SortBySiteAndUser(rows) ==
    IF rows = {} THEN <<>>
    ELSE LET before(r, q) ==
                 \/ SiteRank(r.website) < SiteRank(q.website)
                 \/ /\ SiteRank(r.website) = SiteRank(q.website)
                    /\ UserRank(r.username) <= UserRank(q.username)
             first == CHOOSE r \in rows : \A q \in rows : before(r, q)
         IN  <<first>> \o SortBySiteAndUser(rows \ {first})

\* A List that answers whether or not the Service holds a MEK.
ServiceList_unlocked(db, mek) ==
    LET rows == SortBySiteAndUser(db.rows)
    IN  [err |-> "",
         out |-> [i \in 1..Len(rows) |->
                     [id |-> rows[i].id, website |-> rows[i].website,
                      username |-> rows[i].username]]]

\* Service.List: (id, website, username) of every row.
ServiceList(db, mek) ==
    IF mek = NoBytes THEN [err |-> "vault locked", out |-> <<>>]
    ELSE LET rows == SortBySiteAndUser(db.rows)
         IN  [err |-> "",
              out |-> [i \in 1..Len(rows) |->
                          [id |-> rows[i].id, website |-> rows[i].website,
                           username |-> rows[i].username]]]

\* Service.Close: the database handle is closed and the MEK wiped and
\* dropped; the Service object is still there.
ServiceClose(s) == [open |-> FALSE, dir |-> s.dir, mek |-> NoBytes]

-----------------------------------------------------------------------------
(* cmd/pm: the command line *)

\* No `pm session` running.
NoCli == [dir |-> "", mek |-> NoBytes]

\* vault.DecryptEntryPassword(mek, salt, blob) as sessionGet calls it: the
\* plaintext, and nothing else.
DecryptEntryPassword3(mek, salt, blob) ==
    IF mek.len # mekLen THEN [err |-> "invalid MEK length", plaintext |-> ""]
    ELSE IF salt.len # entrySaltLen
    THEN [err |-> "invalid entry salt length", plaintext |-> ""]
    ELSE IF blob.len <= gcmNonceSize
    THEN [err |-> "encrypted blob too short", plaintext |-> ""]
    ELSE LET d == HKDFSHA256(mek, salt, entryInfo, mekLen)
             p == DecryptAESGCM(d.key, blob.nonce, blob.ct, "")
         IN  IF p.err # "" THEN [err |-> "decrypt entry password", plaintext |-> ""]
             ELSE [err |-> "", plaintext |-> p.pt.val]

\* runSession up to the prompt: the header is loaded and checked, the master
\* password unwraps the MEK, vault.db is opened and migrated.
runSession(d, dir, pw) ==
    LET fail(e) == [err |-> e, mek |-> NoBytes, dbs |-> d]
        l == LoadVaultHeader(dir)
    IN
    IF dir = "" THEN fail("missing required flag: --dir")
    ELSE IF l.err # "" THEN fail("load header")
    ELSE IF l.hdr.KDF.Name # "argon2id" \/ l.hdr.Salt.kind = "empty"
    THEN fail("vault header missing required fields")
    ELSE
    LET salt == DecodeString(l.hdr.Salt) IN
    IF salt.err # "" THEN fail("decode header salt")
    ELSE
    LET k == DeriveKeyArgon2id(pw, salt.raw, l.hdr.KDF) IN
    IF k.err # "" THEN fail("failed to unlock vault")
    ELSE
    LET u == LoadAndUnwrapMEK(dir, k.key) IN
    IF u.err # "" THEN fail("failed to unlock vault")
    ELSE
    LET m == OpenAndMigrate(d, dir)
    IN  IF m.err # "" THEN fail("initialise vault database")
        ELSE [err |-> "", mek |-> u.mek, dbs |-> m.dbs]

\* sessionAdd
sessionAdd(db, mek, site, user, typ, secret, randOK, k) ==
    IF site = "" \/ user = ""
    THEN [err |-> "add requires --site and --user", db |-> db, drew |-> FALSE]
    ELSE
    LET enc == EncryptEntryPassword(mek, secret, randOK, k) IN
    IF enc.err # "" THEN [err |-> "encrypt credential", db |-> db, drew |-> FALSE]
    ELSE
    LET ins == InsertEntry(db, site, user, typ, enc.salt, enc.blob)
    IN  IF ins.err # "" THEN [err |-> "store credential", db |-> db, drew |-> TRUE]
        ELSE [err |-> "", db |-> ins.db, drew |-> TRUE]

\* The plaintexts sessionGet prints for the rows it was given, in order; a row
\* that does not decrypt gets a warning and is passed over.
RECURSIVE printed(_, _)
printed(mek, rows) ==
    IF rows = <<>> THEN <<>>
    ELSE LET d == DecryptEntryPassword3(mek, Head(rows).salt, Head(rows).blob)
         IN  (IF d.err = "" THEN <<[username |-> Head(rows).username,
                                    password |-> d.plaintext]>>
              ELSE <<>>) \o printed(mek, Tail(rows))

\* sessionGet: what is printed; the database is read only.
sessionGet(db, mek, site, user) ==
    IF site = "" THEN [err |-> "get requires --site", out |-> <<>>]
    ELSE IF user # ""
    THEN LET found == GetEntryBySiteAndUser(db, site, user)
         IN  IF found = {} THEN [err |-> "", out |-> <<>>]
             ELSE [err |-> "", out |-> printed(mek, <<FirstRow(found)>>)]
    ELSE [err |-> "", out |-> printed(mek, GetEntryByWebsite(db, site))]

\* runMasterChange: as Service.ChangeMaster, with the old password verified
\* before the new one is read and checked against the policy.
runMasterChange(dir, oldPw, newPw, fault, k) ==
    LET same(e) == [err |-> e, headers |-> headers]
        l == LoadVaultHeader(dir)
    IN
    IF dir = "" THEN same("missing required flags: --dir and --user")
    ELSE IF l.err # "" THEN same("load header")
    ELSE IF l.hdr.KDF.Name # "argon2id" \/ l.hdr.Salt.kind = "empty"
    THEN same("vault header missing required fields")
    ELSE
    LET oldSalt == DecodeString(l.hdr.Salt) IN
    IF oldSalt.err # "" THEN same("decode header salt")
    ELSE
    LET oldPDK == DeriveKeyArgon2id(oldPw, oldSalt.raw, l.hdr.KDF) IN
    IF oldPDK.err # "" THEN same("failed to verify existing password")
    ELSE
    LET u == LoadAndUnwrapMEK(dir, oldPDK.key) IN
    IF u.err # "" THEN same("failed to verify existing password")
    ELSE IF ValidateMasterPasswordAdvanced(newPw, fault # "hibp") # ""
    THEN same("password does not meet policy requirements")
    ELSE
    LET n == NewRandomSalt(k, fault # "rand") IN
    IF n.err # "" THEN same("generate new salt")
    ELSE
    LET newPDK == DeriveKeyArgon2id(newPw, n.salt, l.hdr.KDF) IN
    IF newPDK.err # "" THEN same("derive new key")
    ELSE
    LET hdrCurrent == [l.hdr EXCEPT !.Salt = B64(n.salt), !.KDF.Name = "argon2id"]
        w == RewrapMEK(headers, dir, hdrCurrent, newPDK.key, u.mek, k, fault)
    IN  IF w.err # "" THEN [err |-> IF w.err = "killed" THEN "killed" ELSE "rewrap mek",
                            headers |-> w.headers]
        ELSE [err |-> "", headers |-> w.headers]

-----------------------------------------------------------------------------
(* The environment: vault directories on disk, OS identities, request frames *)

DefaultKDF ==
    [Name |-> "argon2id", MemoryMB |-> 64, Time |-> 3, Parallelism |-> 1,
     SaltLen |-> expectedSaltSz, KeyLen |-> mekLen]

VaultSalt  == [id |-> 1, len |-> expectedSaltSz]
VaultNonce == [id |-> 1, len |-> gcmNonceSize]
MasterPDK  == DeriveKeyArgon2id("pw1", VaultSalt, DefaultKDF).key

\* store.WrapAndSaveMEK's header for a MEK wrapped under the master password.
WrappedHeader(mek) ==
    [Version |-> 1, Salt |-> B64(VaultSalt), WrapNonce |-> B64(VaultNonce),
     WrappedMEK |-> B64(Seal(MasterPDK, VaultNonce, mek, headerMEKAAD)),
     KDF |-> DefaultKDF]

VaultMEK == Bytes(mekLen, 7)

\* The directories a client may name: /v1 is a vault initialised with "pw1";
\* /v16 holds a header made outside the program whose wrapped key has 16
\* bytes; /kdf names another KDF; /salt has a salt that is not base64; /junk
\* holds a header.json that is not JSON; /none has no header.json.
InitHeaders ==
    ("/v1"   :> [json |-> TRUE,  hdr |-> WrappedHeader(VaultMEK)]) @@
    ("/v16"  :> [json |-> TRUE,  hdr |-> WrappedHeader(Bytes(16, 9))]) @@
    ("/kdf"  :> [json |-> TRUE,
                 hdr  |-> [WrappedHeader(VaultMEK) EXCEPT !.KDF.Name = "scrypt"]]) @@
    ("/salt" :> [json |-> TRUE,
                 hdr  |-> [WrappedHeader(VaultMEK) EXCEPT !.Salt = InvalidB64]]) @@
    ("/junk" :> [json |-> FALSE, hdr |-> WrappedHeader(VaultMEK)])

Passwords == {"", "pw1", "wrong"}

\* user.Current() succeeding with a Uid; failing, with $USER set; nothing
\* resolvable.
LoginEnv ==
    [ok |-> TRUE, Uid |-> "1000", Username |-> "alice", USER |-> "alice", USERNAME |-> ""]

OSEnvs ==
    { LoginEnv,
      [ok |-> FALSE, Uid |-> "",     Username |-> "",      USER |-> "bob",   USERNAME |-> ""],
      [ok |-> FALSE, Uid |-> "",     Username |-> "",      USER |-> "",      USERNAME |-> ""] }

\* The tokens a client presents: none, the one of the latest unlock, and a
\* stale one (the token issued before it, or a value never issued: "tok0").
Tokens ==
    {""} \cup {TokenStr(k) : k \in {IF issued > 0 THEN issued - 1 ELSE 0, issued}}
Nonces == {"", "n1", "n2"}

Frame(type, json) ==
    [type |-> type, json |-> json, dir |-> "", masterPassword |-> "",
     sessionToken |-> "", nonce |-> "", domainEtld1 |-> "", exactHost |-> "",
     username |-> "", password |-> "", requireExactHost |-> FALSE,
     url |-> "", savedEtld1 |-> ""]

UnlockFrame(d, p) == [Frame("unlock", TRUE) EXCEPT !.dir = d, !.masterPassword = p]

\* Unlock requests: the initialised vault under every password, every other
\* directory (and no directory) under the password that would open /v1.
UnlockFrames ==
    {UnlockFrame("v1", p) : p \in Passwords}
    \cup {UnlockFrame(d, "pw1") : d \in {"", "  ", "/v16", "/kdf", "/salt", "/junk", "/none"}}

Authed(f) ==
    {[f EXCEPT !.sessionToken = tk, !.nonce = n] : tk \in Tokens, n \in Nonces}

\* A frame with a token and a nonce that may be accepted.
Plausible(f, ns) ==
    {[f EXCEPT !.sessionToken = tk, !.nonce = n] : tk \in Tokens \ {""}, n \in ns}

LockFrames == Authed(Frame("lock", TRUE))

Page(f, etld1, host, exact) ==
    [f EXCEPT !.domainEtld1 = etld1, !.exactHost = host, !.requireExactHost = exact]

GetAlice ==
    [Page(Frame("getCredentials", TRUE), "example.com", "login.example.com", FALSE)
        EXCEPT !.username = "alice"]

GetPayloads ==
    LET g == Frame("getCredentials", TRUE) IN
    { Page(g, "Example.COM", "Login.Example.com:443", TRUE),
      Page(g, "", "login.example.com", FALSE),
      Page(g, "example.com", "evil.example.org", FALSE) }

SaveAlice ==
    [Page(Frame("saveCredential", TRUE), "example.com", "login.example.com", FALSE)
        EXCEPT !.username = "alice", !.password = "hunter2"]

SavePayloads ==
    { [Page(SaveAlice, "example.com", "login.example.com", TRUE) EXCEPT !.username = "bob"],
      [SaveAlice EXCEPT !.password = ""],
      Page(SaveAlice, "example.com", "evil.example.org", FALSE) }

GetFrames  == Plausible(GetAlice, {"n1", "n2"})
              \cup UNION {Plausible(f, {"n2"}) : f \in GetPayloads}
SaveFrames == Plausible(SaveAlice, {"n1", "n2"})
              \cup UNION {Plausible(f, {"n2"}) : f \in SavePayloads}

\* Payloads that are not JSON at all, or not JSON of the request's struct.
BadFrames ==
    {Frame(ty, FALSE) : ty \in {"", "unlock", "getCredentials", "saveCredential"}}

OtherFrames == {Frame("health", TRUE), Frame("frobnicate", TRUE)}

NoFrame == Frame("", FALSE)
NoResp  == [ok |-> TRUE, code |-> "", message |-> "", data |-> [kind |-> "start"]]

\* What the model remembers of the call made last, of whichever program: the
\* operation, its arguments, the error it returned and what it gave back.
NoCall ==
    [op |-> "", dir |-> "", site |-> "", user |-> "", master |-> "",
     newMaster |-> "", secret |-> "", err |-> "", out |-> <<>>]

\* A frame handled by the native host (req and resp hold the details).
HostCall == [NoCall EXCEPT !.op = "host"]

\* A read of vault.db that has done its SELECT and not yet the UPDATE of its
\* rotation holds the rows it fetched, the key it decrypts with and, in the
\* host, the frame it answers.
NoFetch == [on |-> FALSE, dir |-> "", rows |-> <<>>, mek |-> NoBytes, at |-> Nil]
NoRd    == [host |-> NoFetch, svc |-> NoFetch]

Called(op, dir, site, user, err, out) ==
    [NoCall EXCEPT !.op = op, !.dir = dir, !.site = site, !.user = user,
                   !.err = err, !.out = out]

-----------------------------------------------------------------------------
(* Setting the first master password *)

\* vault.VaultHeader{}: the header a program starts from when header.json
\* does not exist.
EmptyHeader ==
    [Version |-> 0, Salt |-> EmptyStr, WrapNonce |-> EmptyStr, WrappedMEK |-> EmptyStr,
     KDF |-> [Name |-> "", MemoryMB |-> 0, Time |-> 0, Parallelism |-> 0,
              SaltLen |-> 0, KeyLen |-> 0]]

\* The 32 bytes rand.Read gives for a new MEK at draw k.
NewMEK(k) == Bytes(mekLen, 100 + k)

\* A WrapAndSaveMEK that stores the nonce and forgets the wrapped key.
WrapAndSaveMEK_nonceOnly(h, dir, hdr, pdk, mek, k, fault) ==
    SaveVaultHeader(h, dir,
        [hdr EXCEPT !.WrapNonce = B64([id |-> k, len |-> gcmNonceSize])], fault)

\* store.WrapAndSaveMEK: the MEK sealed under the PDK with a new nonce (draw
\* k), and the header saved.
WrapAndSaveMEK(h, dir, hdr, pdk, mek, k, fault) ==
    IF pdk.len # mekLen THEN [err |-> "invalid PDK length", headers |-> h]
    ELSE IF mek.len # mekLen THEN [err |-> "invalid MEK length", headers |-> h]
    ELSE IF hdr.Version # 1 THEN [err |-> "unsupported header version", headers |-> h]
    ELSE IF hdr.KDF.Name # "argon2id" THEN [err |-> "unsupported kdf", headers |-> h]
    ELSE IF fault = "rand" THEN [err |-> "wrap mek", headers |-> h]
    ELSE LET nonce == [id |-> k, len |-> gcmNonceSize]
         IN  SaveVaultHeader(h, dir,
                 [hdr EXCEPT !.WrapNonce  = B64(nonce),
                             !.WrappedMEK = B64(Seal(pdk, nonce, mek, headerMEKAAD))],
                 fault)

\* Service.NeedsMasterSetup
NeedsMasterSetup(dir) ==
    LET l == LoadVaultHeader(dir) IN
    IF l.err = "not exist" THEN [err |-> "", need |-> TRUE]
    ELSE IF l.err # "" THEN [err |-> "load header", need |-> FALSE]
    ELSE IF l.hdr.WrapNonce.kind = "empty" \/ l.hdr.WrappedMEK.kind = "empty"
    THEN [err |-> "", need |-> TRUE]
    ELSE [err |-> "", need |-> FALSE]

\* A SetMaster that does not look whether the vault is initialised already.
SetMaster_again(dir, held, user, master, fault, k) ==
    LET same(e) == [err |-> e, headers |-> headers, mek |-> held]
        l == LoadVaultHeader(dir) IN
    IF IsBlank(user) THEN same("username is required")
    ELSE IF master = "" THEN same("master password cannot be empty")
    ELSE IF ValidateMasterPasswordAdvanced(master, fault # "hibp") # ""
    THEN same("validate master password")
    ELSE IF l.err \notin {"", "not exist"} THEN same("load header")
    ELSE
    LET n   == NewRandomSalt(k, fault # "rand")
        pdk == DeriveKeyArgon2id(master, n.salt, DefaultKDF)
        hdr == [(IF l.err = "" THEN l.hdr ELSE EmptyHeader)
                    EXCEPT !.Salt = B64(n.salt), !.Version = 1, !.KDF = DefaultKDF]
    IN
    IF n.err # "" THEN same("generate salt")
    ELSE IF pdk.err # "" THEN same("derive key")
    ELSE
    LET w == WrapAndSaveMEK(headers, dir, hdr, pdk.key, NewMEK(k), k, fault)
    IN  IF w.err # "" THEN [err |-> IF w.err = "killed" THEN "killed" ELSE "persist header",
                            headers |-> w.headers, mek |-> held]
        ELSE [err |-> "", headers |-> w.headers, mek |-> NoBytes]

\* Service.SetMaster: k numbers the draws of the salt, the MEK and the wrap
\* nonce.  The result carries header.json of every directory as the call
\* leaves it, and the MEK the Service holds afterwards: none, after success.
SetMaster(dir, held, user, master, fault, k) ==
    LET same(e) == [err |-> e, headers |-> headers, mek |-> held]
        l == LoadVaultHeader(dir) IN
    IF IsBlank(user) THEN same("username is required")
    ELSE IF master = "" THEN same("master password cannot be empty")
    ELSE IF ValidateMasterPasswordAdvanced(master, fault # "hibp") # ""
    THEN same("validate master password")
    ELSE IF l.err \notin {"", "not exist"} THEN same("load header")
    ELSE IF l.err = "" /\ l.hdr.WrapNonce.kind # "empty" /\ l.hdr.WrappedMEK.kind # "empty"
    THEN same("vault already initialised; unlock instead")
    ELSE
    LET n   == NewRandomSalt(k, fault # "rand")
        pdk == DeriveKeyArgon2id(master, n.salt, DefaultKDF)
        hdr == [(IF l.err = "" THEN l.hdr ELSE EmptyHeader)
                    EXCEPT !.Salt = B64(n.salt), !.Version = 1, !.KDF = DefaultKDF]
    IN
    IF n.err # "" THEN same("generate salt")
    ELSE IF pdk.err # "" THEN same("derive key")
    ELSE
    LET w == WrapAndSaveMEK(headers, dir, hdr, pdk.key, NewMEK(k), k, fault)
    IN  IF w.err # "" THEN [err |-> IF w.err = "killed" THEN "killed" ELSE "persist header",
                            headers |-> w.headers, mek |-> held]
        ELSE [err |-> "", headers |-> w.headers, mek |-> NoBytes]

\* runMasterSet (`pm master set --dir --user`, the password typed twice the
\* same): a header that exists keeps its salt when that has 12 bytes, and
\* its MEK when the password unwraps it; a new MEK is drawn when the header
\* holds none.
runMasterSet(dir, user, pw, fault, k) ==
    LET same(e) == [err |-> e, headers |-> headers]
        l == LoadVaultHeader(dir) IN
    IF dir = "" \/ user = "" THEN same("missing required flags: --dir and --user")
    ELSE IF ValidateMasterPasswordAdvanced(pw, fault # "hibp") # ""
    THEN same("password does not meet policy requirements")
    ELSE IF l.err \notin {"", "not exist"} THEN same("load header")
    ELSE
    LET headerExists == l.err = ""
        hdr0 == IF headerExists THEN l.hdr ELSE EmptyHeader
        old  == DecodeString(hdr0.Salt)
        saltReplaced == hdr0.Salt.kind # "empty" /\ old.raw.len # expectedSaltSz
        drawn == hdr0.Salt.kind = "empty" \/ saltReplaced
        n    == NewRandomSalt(k, fault # "rand")
        salt == IF drawn THEN n.salt ELSE old.raw
        hdr1 == IF drawn THEN [hdr0 EXCEPT !.Salt = B64(n.salt)] ELSE hdr0
    IN
    IF hdr0.Salt.kind # "empty" /\ old.err # "" THEN same("decode header salt")
    ELSE IF drawn /\ n.err # "" THEN same("generate salt")
    ELSE
    LET pdk == DeriveKeyArgon2id(pw, salt, DefaultKDF) IN
    IF pdk.err # "" THEN same("derive key")
    ELSE
    LET tried == headerExists /\ ~saltReplaced /\ hdr1.Version = 1
                    /\ hdr1.KDF.Name = "argon2id"
        u == LoadAndUnwrapMEK(dir, pdk.key)
    IN
    IF tried /\ u.err \notin {"", "wrapped mek not present"}
    THEN same("load existing mek")
    ELSE
    LET kept == tried /\ u.err = "" /\ u.mek.len # 0
        mek  == IF kept THEN u.mek ELSE NewMEK(k)
        hdr  == [(IF tried /\ u.err = "" THEN l.hdr ELSE hdr1)
                    EXCEPT !.Version = 1, !.KDF = DefaultKDF]
    IN
    IF ~kept /\ fault = "rand" THEN same("generate mek")
    ELSE
    LET w == WrapAndSaveMEK(headers, dir, hdr, pdk.key, mek, k, fault)
    IN  IF w.err # "" THEN [err |-> IF w.err = "killed" THEN "killed" ELSE "persist header",
                            headers |-> w.headers]
        ELSE [err |-> "", headers |-> w.headers]

-----------------------------------------------------------------------------
(* native-host: the process (main, readFrame, writeFrame, the signal goroutine) *)

maxFrameSize == 1048576     \* 1 << 20

\* The most frames the browser sends to one host process in the model.
MaxFrames == 3

\* What the browser puts into the pipe: the length its 4-byte prefix
\* declares, the payload, and whether the pipe was closed before the whole
\* payload was written.
PipeItem(size, rq, cut) == [size |-> size, rq |-> rq, cut |-> cut]

\* A readFrame that refuses a frame of exactly maxFrameSize bytes.
readFrame_strict(pipe, eof) ==
    IF pipe = <<>> THEN [err |-> IF eof THEN "EOF" ELSE "wait", rest |-> pipe]
    ELSE IF Head(pipe).size >= maxFrameSize
    THEN [err |-> "frame too large", rest |-> Tail(pipe)]
    ELSE IF Head(pipe).cut THEN [err |-> "unexpected EOF", rest |-> Tail(pipe)]
    ELSE [err |-> "", payload |-> Head(pipe).rq, rest |-> Tail(pipe)]

\* readFrame: the length prefix is read, a length above maxFrameSize is an
\* error, and otherwise the whole payload is read; "wait" stands for the
\* read that blocks on an empty pipe that is still open.
readFrame(pipe, eof) ==
    IF pipe = <<>> THEN [err |-> IF eof THEN "EOF" ELSE "wait", rest |-> pipe]
    ELSE IF Head(pipe).size > maxFrameSize
    THEN [err |-> "frame too large", rest |-> Tail(pipe)]
    ELSE IF Head(pipe).cut THEN [err |-> "unexpected EOF", rest |-> Tail(pipe)]
    ELSE [err |-> "", payload |-> Head(pipe).rq, rest |-> Tail(pipe)]

\* A writeFrame that writes the frame twice.
writeFrame_twice(out, frame, ok) ==
    IF ~ok THEN [err |-> "write", out |-> out]
    ELSE [err |-> "", out |-> out \o <<frame, frame>>]

\* writeFrame: length prefix and JSON are written to stdout and flushed; ok
\* says whether the browser still reads the pipe.
writeFrame(out, frame, ok) ==
    IF ~ok THEN [err |-> "write", out |-> out]
    ELSE [err |-> "", out |-> Append(out, frame)]

\* A session in which every part of a handler runs under the mutex.
holdsMutex_throughout(part) == TRUE

\* The parts of a handler that run inside a method of sessionState, between
\* s.mutex.Lock() and the deferred s.mutex.Unlock().
holdsMutex(part) == part \in {"clear", "establish", "validateRequest"}

\* The parts of handleRequest for a payload, in the order they run, given the
\* response the handler arrives at: the methods of sessionState it calls,
\* "derive" for LoadVaultHeader, DeriveKeyArgon2id and LoadAndUnwrapMEK, and
\* "serve" for the gate and the work on vault.db.
Parts(rq, o) ==
    IF ~rq.json THEN <<>>
    ELSE CASE rq.type = "unlock" ->
                IF IsBlank(rq.dir) THEN <<>>
                ELSE IF rq.masterPassword = "" THEN <<"clear">>
                ELSE IF o.resp.ok \/ o.resp.code = "INTERNAL"
                THEN <<"clear", "derive", "establish">>
                ELSE <<"clear", "derive">>
           [] rq.type = "lock" ->
                IF o.resp.ok THEN <<"validateRequest", "clear">>
                ELSE <<"validateRequest">>
           [] rq.type \in {"getCredentials", "saveCredential"} ->
                IF o.ret.err = "" THEN <<"validateRequest", "serve">>
                ELSE <<"validateRequest">>
           [] OTHER -> <<>>

\* A signal goroutine that exits without clearing.
onSignal_exitOnly(m) == m

\* The signal goroutine after <-sigCh: sess.clear(), then os.Exit(0).
onSignal(m) == clear(m)

\* No frame in hand.
NoJob ==
    [rq |-> Frame("", FALSE), size |-> 0, parts |-> <<>>, fault |-> "none",
     out |-> <<>>]

\* The host process as main starts its loop: nothing in the pipe, nothing
\* written, the mutex free, the signal goroutine waiting on sigCh.
NoProc ==
    [pc |-> "read", mu |-> "", sig |-> "waiting", stdin |-> <<>>, eof |-> FALSE,
     sent |-> 0, taken |-> 0, stdout |-> <<>>, job |-> NoJob, exit |-> ""]

-----------------------------------------------------------------------------
(* The extension: the frame context of phishing.ts and the message handlers
   of the background page *)

\* The most messages the content scripts send to the background page.
MaxMessages == 2

\* currentFrameContext = null
NoCtx == [set |-> FALSE, tabId |-> 0, frameId |-> 0]

\* A variant of setFrameContext that keeps a context that is set.
setFrameContext_first(ctx, tabId, frameId) ==
    IF ctx.set THEN ctx ELSE [set |-> TRUE, tabId |-> tabId, frameId |-> frameId]

\* setFrameContext(tabId, frameId) with both arguments defined: the one
\* module-level context is overwritten.
setFrameContext(ctx, tabId, frameId) ==
    [set |-> TRUE, tabId |-> tabId, frameId |-> frameId]

\* isTopLevelFrame: what it reads of the module-level context when called.
isTopLevelFrame(ctx) == ctx.set /\ ctx.frameId = 0

\* evaluatePageForAutofill after nmPhishingCheck settled: top is what
\* isTopLevelFrame answered, base what the host answered ("ok" with an
\* eTLD+1, "noetld" ok without one, "blocked" with the reason
\* DOMAIN_MISMATCH, "failed" for a rejected call).
evaluatePageForAutofill(top, base) ==
    LET frameReasons == IF top THEN <<>> ELSE <<"IFRAME">>
    IN  IF base = "failed"
        THEN [ok |-> FALSE, reasons |-> frameReasons \o <<"PHISHING_CHECK_FAILED">>,
              etld1 |-> ""]
        ELSE [ok |-> base \in {"ok", "noetld"} /\ frameReasons = <<>>,
              reasons |-> (IF base = "blocked" THEN <<"DOMAIN_MISMATCH">> ELSE <<>>)
                          \o frameReasons,
              etld1 |-> IF base = "ok" THEN "example.com" ELSE ""]

NoVerdict == [ok |-> FALSE, reasons |-> <<>>, etld1 |-> ""]
NoAnswer  == [sent |-> FALSE, ok |-> FALSE, code |-> "", reasons |-> <<>>,
              data |-> ""]

\* sendResponse(...)
Answer(ok, code, reasons, data) ==
    [sent |-> TRUE, ok |-> ok, code |-> code, reasons |-> reasons, data |-> data]

\* A message being handled: its type, the tab and the frame of its sender,
\* the await its handler is suspended at, the verdict it got and the
\* response it sent.
Handler(type, tabId, frameId, pc) ==
    [type |-> type, tabId |-> tabId, frameId |-> frameId, pc |-> pc,
     top |-> FALSE, verdict |-> NoVerdict, judged |-> FALSE, answer |-> NoAnswer]

NoBg == [ctx |-> NoCtx, hs |-> <<>>]

\* The most calls of sendNative on the persistent port.
MaxCalls == 3

\* The messages of the errors a call on the persistent port is rejected with:
\* the module's own, the one Chrome's postMessage throws on a port that is
\* disconnected, createNativeError() without and with chrome.runtime.lastError.
InFlightMsg     == "native request already in flight"
DeadPortMsg     == "Attempting to use a disconnected port object"
DisconnectedMsg == "Native host disconnected"
NoHostMsg       == "Specified native messaging host not found."

\* The test of runWithRetry on the message of the error it caught.
recoverable(msg) == msg \in {DeadPortMsg, DisconnectedMsg}

\* The module before its first call: persistentPort and connectPromise null
\* (0), lastCall resolved (0), nothing in flight.  ports holds, for every
\* port connectNative returned, whether it is still connected; calls the
\* calls of sendNative, each with the call its run is chained on (after), its
\* state, the attempts made and what a settled caller does next; posts the
\* calls in the order of their postMessage.
NoNm ==
    [persistentPort |-> 0, connectPromise |-> 0, lastCall |-> 0,
     persistentInFlight |-> FALSE, ports |-> <<>>, calls |-> <<>>, posts |-> <<>>]

NativeCall(op, after, then) ==
    [op |-> op, after |-> after, then |-> then, st |-> "queued", retried |-> FALSE,
     tries |-> 0, port |-> 0, ok |-> FALSE, err |-> ""]

Settled(c) == c.st \in {"resolved", "rejected"}

\* An ensurePersistentPort whose connectPromise is null again once the port
\* is connected.
ensurePersistentPort_fresh(n) ==
    IF n.persistentPort # 0 THEN [nm |-> n, port |-> n.persistentPort]
    ELSE IF n.connectPromise # 0 THEN [nm |-> n, port |-> n.connectPromise]
    ELSE LET p == Len(n.ports) + 1
         IN  [nm   |-> [n EXCEPT !.ports = Append(@, TRUE), !.persistentPort = p],
              port |-> p]

\* ensurePersistentPort: the port held, else what connectPromise resolves
\* to, else a new port.  The executor of the new promise sets connectPromise
\* to null and returns, and then the promise is assigned to connectPromise:
\* from the first connection on connectPromise is the promise of that port.
ensurePersistentPort(n) ==
    IF n.persistentPort # 0 THEN [nm |-> n, port |-> n.persistentPort]
    ELSE IF n.connectPromise # 0 THEN [nm |-> n, port |-> n.connectPromise]
    ELSE LET p == Len(n.ports) + 1
         IN  [nm   |-> [n EXCEPT !.ports = Append(@, TRUE), !.persistentPort = p,
                                 !.connectPromise = p],
              port |-> p]

\* disconnectPersistentPort
disconnectPersistentPort(n) ==
    IF n.persistentPort = 0 THEN n
    ELSE [n EXCEPT !.ports[n.persistentPort] = FALSE, !.persistentPort = 0,
                   !.lastCall = 0]

resetNativeConnection(n) == disconnectPersistentPort(n)

\* The calls that run next once call i is settled: the one chained on it,
\* then those that were chained on a lastCall that was already resolved.
Ready(n, i) ==
    LET on   == {j \in 1..Len(n.calls) : n.calls[j].st = "queued" /\ n.calls[j].after = i}
        free == {j \in 1..Len(n.calls) :
                    /\ n.calls[j].st = "queued" /\ n.calls[j].after # i
                    /\ (n.calls[j].after = 0 \/ Settled(n.calls[n.calls[j].after]))}
    IN  on \cup free

RECURSIVE sendPersistentNative(_, _)
RECURSIVE runWithRetry(_, _, _)
RECURSIVE settle(_, _)
RECURSIVE sendNative(_, _, _)
RECURSIVE drain(_, _)

\* sendPersistentNative for call i: the port, the test of persistentInFlight,
\* the listeners and postMessage; a postMessage that throws is caught, the
\* port given up and lastCall made a resolved promise.
sendPersistentNative(n, i) ==
    LET e  == ensurePersistentPort(n)
        p  == e.port
        n1 == [e.nm EXCEPT !.calls[i].tries = @ + 1]
    IN  IF n1.persistentInFlight THEN runWithRetry(n1, i, InFlightMsg)
        ELSE IF ~n1.ports[p]
        THEN runWithRetry([n1 EXCEPT !.persistentPort = IF @ = p THEN 0 ELSE @,
                                     !.lastCall = 0], i, DeadPortMsg)
        ELSE [n1 EXCEPT !.persistentInFlight = TRUE, !.calls[i].st = "posted",
                        !.calls[i].port = p, !.posts = Append(@, i)]

\* The catch clause of runWithRetry for call i, rejected with msg: one more
\* run for a recoverable error when none was made, else the error is thrown.
runWithRetry(n, i, msg) ==
    IF recoverable(msg) /\ ~n.calls[i].retried
    THEN sendPersistentNative([n EXCEPT !.calls[i].retried = TRUE], i)
    ELSE settle([n EXCEPT !.calls[i].st = "rejected", !.calls[i].err = msg], i)

\* The promise of call i is settled.  Its caller goes on first: nmLock
\* disconnects the port when the lock failed, and session.unlock, which
\* called nmLock, then resets the connection and calls nmUnlock.  Then the
\* calls that waited run.
settle(n, i) ==
    LET c      == n.calls[i]
        failed == c.st = "rejected" \/ ~c.ok
        n1     == IF c.op = "lock" /\ failed THEN disconnectPersistentPort(n) ELSE n
        n2     == IF c.then = "unlock"
                  THEN sendNative(IF failed THEN resetNativeConnection(n1) ELSE n1,
                                  "unlock", "")
                  ELSE n1
    IN  drain(n2, i)

\* The runs that are due after call i settled, one after the other.
drain(n, i) ==
    LET r == Ready(n, i) IN
    IF r = {} THEN n
    ELSE LET on == {j \in r : n.calls[j].after = i}
             j  == IF on # {} THEN CHOOSE k \in on : TRUE
                   ELSE CHOOSE k \in r : \A q \in r : k <= q
         IN  drain(sendPersistentNative(n, j), i)

\* sendNative without the transient option: the run is chained on lastCall
\* and lastCall becomes the promise of this call.  (The run itself starts
\* in a later turn of the promise queue: drain.)
sendNative(n, op, then) ==
    [n EXCEPT !.calls = Append(@, NativeCall(op, n.lastCall, then)),
              !.lastCall = Len(n.calls) + 1]

-----------------------------------------------------------------------------
(* The state machine *)

\* What the model remembers of the frame handled last.
Digest(rq) ==
    [type |-> rq.type, json |-> rq.json, dir |-> rq.dir,
     masterPassword |-> rq.masterPassword, sessionToken |-> rq.sessionToken,
     nonce |-> rq.nonce, domainEtld1 |-> rq.domainEtld1, exactHost |-> rq.exactHost,
     requireExactHost |-> rq.requireExactHost, username |-> rq.username,
     password |-> rq.password]

Init ==
    /\ sess = NoSession
    /\ heap = <<>>
    /\ now = 0
    /\ osenv = LoginEnv
    /\ headers = InitHeaders
    /\ dbs = <<>>
    /\ issued = 0
    /\ rng = 0
    /\ req = Digest(NoFrame)
    /\ resp = NoResp
    /\ ret = NoRet
    /\ svc = NoService
    /\ cli = NoCli
    /\ call = NoCall
    /\ proc = NoProc
    /\ bg = NoBg
    /\ nm = NoNm
    /\ rd = NoRd

Current == [sess |-> sess, heap |-> heap, dbs |-> dbs, issued |-> issued, rng |-> rng]

\* The faults that can show in the handling of a frame: rand.Read failing,
\* vault.db not opening.
Faults(rq) ==
    IF rq = GetAlice \/ rq = SaveAlice THEN {"none", "rand", "db"}
    ELSE IF rq = UnlockFrame("v1", "pw1") THEN {"none", "rand"}
    ELSE {"none"}

Unauthed(rq) == [rq EXCEPT !.sessionToken = "", !.nonce = ""]

\* One turn of main's loop: read a frame, handle it, write the response.
Turn(rq, f) == handleRequest(Current, rq, f # "rand", f # "db", now, osenv)

\* The CSPRNG draws stay within the bounds of the model.
InBounds(o) == o.issued <= MaxTokens /\ o.rng <= MaxRng

\* A turn of the loop on an unlock frame.
Unlock(F) ==
    \E rq \in F : \E f \in Faults(Unauthed(rq)) :
        \E o \in {Turn(rq, f)} :
        /\ InBounds(o)
        /\ sess' = o.sess /\ heap' = o.heap /\ dbs' = o.dbs
        /\ issued' = o.issued /\ rng' = o.rng
        /\ resp' = o.resp /\ ret' = o.ret /\ req' = Digest(rq)
        /\ call' = HostCall
        /\ UNCHANGED <<rd, bg, nm, proc, now, osenv, headers, svc, cli>>

\* A turn on a lock frame.
Lock(F) ==
    \E rq \in F : \E f \in Faults(Unauthed(rq)) :
        \E o \in {Turn(rq, f)} :
        /\ InBounds(o)
        /\ sess' = o.sess /\ heap' = o.heap /\ dbs' = o.dbs
        /\ issued' = o.issued /\ rng' = o.rng
        /\ resp' = o.resp /\ ret' = o.ret /\ req' = Digest(rq)
        /\ call' = HostCall
        /\ UNCHANGED <<rd, bg, nm, proc, now, osenv, headers, svc, cli>>

\* A turn on a getCredentials frame.
GetCredentials(F) ==
    \E rq \in F : \E f \in Faults(Unauthed(rq)) :
        \E o \in {Turn(rq, f)} :
        /\ InBounds(o)
        /\ sess' = o.sess /\ heap' = o.heap /\ dbs' = o.dbs
        /\ issued' = o.issued /\ rng' = o.rng
        /\ resp' = o.resp /\ ret' = o.ret /\ req' = Digest(rq)
        /\ call' = HostCall
        /\ UNCHANGED <<rd, bg, nm, proc, now, osenv, headers, svc, cli>>

\* A turn on a saveCredential frame.
SaveCredential(F) ==
    \E rq \in F : \E f \in Faults(Unauthed(rq)) :
        \E o \in {Turn(rq, f)} :
        /\ InBounds(o)
        /\ sess' = o.sess /\ heap' = o.heap /\ dbs' = o.dbs
        /\ issued' = o.issued /\ rng' = o.rng
        /\ resp' = o.resp /\ ret' = o.ret /\ req' = Digest(rq)
        /\ call' = HostCall
        /\ UNCHANGED <<rd, bg, nm, proc, now, osenv, headers, svc, cli>>

\* A turn on a payload that does not parse.
Malformed(F) ==
    \E rq \in F : \E f \in Faults(Unauthed(rq)) :
        \E o \in {Turn(rq, f)} :
        /\ InBounds(o)
        /\ sess' = o.sess /\ heap' = o.heap /\ dbs' = o.dbs
        /\ issued' = o.issued /\ rng' = o.rng
        /\ resp' = o.resp /\ ret' = o.ret /\ req' = Digest(rq)
        /\ call' = HostCall
        /\ UNCHANGED <<rd, bg, nm, proc, now, osenv, headers, svc, cli>>

\* A turn on a health frame or a frame of unknown type.
Other(F) ==
    \E rq \in F : \E f \in Faults(Unauthed(rq)) :
        \E o \in {Turn(rq, f)} :
        /\ InBounds(o)
        /\ sess' = o.sess /\ heap' = o.heap /\ dbs' = o.dbs
        /\ issued' = o.issued /\ rng' = o.rng
        /\ resp' = o.resp /\ ret' = o.ret /\ req' = Digest(rq)
        /\ call' = HostCall
        /\ UNCHANGED <<rd, bg, nm, proc, now, osenv, headers, svc, cli>>

\* Time passes between requests.
Tick ==
    /\ \E d \in {300, 301} : now + d <= MaxNow /\ now' = now + d
    /\ UNCHANGED <<rd, bg, nm, proc, sess, heap, osenv, headers, dbs, issued, rng, req, resp, ret,
                   svc, cli, call>>

\* The OS starts answering currentUserIdentifier differently.
IdentityChange ==
    /\ \E e \in OSEnvs \ {osenv} : osenv' = e
    /\ UNCHANGED <<rd, bg, nm, proc, sess, heap, now, headers, dbs, issued, rng, req, resp, ret,
                   svc, cli, call>>

Next ==
    \/ Unlock(UnlockFrames)
    \/ Lock(LockFrames)
    \/ GetCredentials(GetFrames)
    \/ SaveCredential(SaveFrames)
    \/ Malformed(BadFrames)
    \/ Other(OtherFrames)
    \/ Tick

Spec == Init /\ [][Next]_vars

\* The host under an OS whose answer to currentUserIdentifier changes while a
\* session is held: unlocks of the initialised vault, privileged requests,
\* time, and changes of identity.
OwnerUnlockFrames == {UnlockFrame("v1", "pw1")}
OwnerGetFrames    == Plausible(GetAlice, {"n1", "n2"})

OwnerNext ==
    \/ Unlock(OwnerUnlockFrames)
    \/ Lock(LockFrames)
    \/ GetCredentials(OwnerGetFrames)
    \/ Tick
    \/ IdentityChange

OwnerSpec == Init /\ [][OwnerNext]_vars

\* A turn on a phishingCheck frame.
PhishingCheck(F) ==
    \E rq \in F : \E f \in Faults(Unauthed(rq)) :
        \E o \in {Turn(rq, f)} :
        /\ InBounds(o)
        /\ sess' = o.sess /\ heap' = o.heap /\ dbs' = o.dbs
        /\ issued' = o.issued /\ rng' = o.rng
        /\ resp' = o.resp /\ ret' = o.ret /\ req' = Digest(rq)
        /\ call' = HostCall
        /\ UNCHANGED <<rd, bg, nm, proc, now, osenv, headers, svc, cli>>

\* The host serving the pages of a browser, with rand.Read and vault.db
\* working: one vault, credentials of two users saved and fetched under the
\* spellings of its site by a page that requires its exact host, a page on a
\* punycode host, pages of another site and of a host without a registrable
\* domain, and the extension asking for verdicts.
PageUnlockFrames == {UnlockFrame("v1", "pw1")}

\* A frame under the token of the latest unlock.
Live(f, ns) == {[f EXCEPT !.sessionToken = TokenStr(issued), !.nonce = n] : n \in ns}

PunyHost == "xn--exmple-cua.com"

PageSave == Page(SaveAlice, "example.com", "login.example.com", TRUE)
PageGet  == Page(GetAlice, "example.com", "login.example.com", TRUE)

PageSavePayloads ==
    { PageSave,
      [PageSave EXCEPT !.domainEtld1 = "Example.COM"],
      [PageSave EXCEPT !.username = "bob", !.password = "s3cret"],
      Page(SaveAlice, PunyHost, PunyHost, FALSE),
      Page(SaveAlice, "example.com", "evil.example.org", FALSE) }

PageGetPayloads ==
    { PageGet,
      [PageGet EXCEPT !.domainEtld1 = "Example.COM"],
      [PageGet EXCEPT !.username = ""],
      [PageGet EXCEPT !.username = "bob"],
      Page(GetAlice, PunyHost, PunyHost, FALSE),
      Page(GetAlice, "example.com", "evil.example.org", FALSE),
      Page(GetAlice, "localhost", "localhost", FALSE) }

PageSaveFrames == UNION {Live(f, {"n1", "n2"}) : f \in PageSavePayloads}
PageGetFrames  == UNION {Live(f, {"n1", "n2", "n3"}) : f \in PageGetPayloads}
PageLockFrames == Live(Frame("lock", TRUE), {"n3"})

PhishingFrames ==
    {[Frame("phishingCheck", TRUE) EXCEPT !.url = sc \o "://" \o h \o "/",
                                          !.savedEtld1 = "example.com"] :
        sc \in {"https", "http"}, h \in {"login.example.com", "evil.example.org", PunyHost}}
    \cup {[Frame("phishingCheck", TRUE) EXCEPT !.url = "::"]}

PageNext ==
    \/ Unlock(PageUnlockFrames)
    \/ Lock(PageLockFrames)
    \/ GetCredentials(PageGetFrames)
    \/ SaveCredential(PageSaveFrames)
    \/ PhishingCheck(PhishingFrames)

PageSpec == Init /\ [][PageNext]_vars

\* The host with every condition validateRequest looks at able to hold at
\* once: sessions on the vault and on the directory whose wrapped key has 16
\* bytes, requests with no token, the session's token and a stale one, with
\* no nonce, a used and an unused one, time passing beyond the expiry, the
\* OS changing its answer to currentUserIdentifier, and frames of the
\* commands that need no session.
GuardNext ==
    \/ Unlock({UnlockFrame("v1", "pw1"), UnlockFrame("/v16", "pw1")})
    \/ Lock(LockFrames)
    \/ GetCredentials(Authed(GetAlice))
    \/ Other(OtherFrames)
    \/ PhishingCheck({[Frame("phishingCheck", TRUE)
                          EXCEPT !.url = "https://login.example.com/",
                                 !.savedEtld1 = "example.com"]})
    \/ Tick
    \/ IdentityChange

GuardSpec == Init /\ [][GuardNext]_vars

-----------------------------------------------------------------------------
(* The three programs over one vault directory *)

StoreDir   == "/v1"
StoreSite  == "example.com"
StoreUsers == {"alice", "bob"}
Secrets    == {"hunter2", "s3cret"}

\* The rows a vault.db on disk may hold when the programs start: the row
\* EncryptEntryPassword and InsertEntry make for a user, under draw k.
Stored(db, mek, user, secret, k) ==
    LET enc == EncryptEntryPassword(mek, secret, TRUE, k)
    IN  InsertEntry(db, StoreSite, user, "password", enc.salt, enc.blob).db

\* A vault.db made by db.Migrate holding alice's and bob's credentials.
GoodStore ==
    Stored(Stored(EmptyDB, VaultMEK, "alice", "hunter2", 101),
           VaultMEK, "bob", "s3cret", 102)

\* What can have happened to a row outside the programs: it was sealed under
\* the MEK of another vault; its blob was tampered with; its salt lost bytes;
\* its blob was cut down to the nonce.
Damages == {"mek", "tamper", "salt", "short"}

Damage(r, kind) ==
    CASE kind = "mek"    -> LET enc == EncryptEntryPassword(Bytes(mekLen, 8), "hunter2",
                                                             TRUE, 101)
                            IN  [r EXCEPT !.salt = enc.salt, !.blob = enc.blob]
      [] kind = "tamper" -> [r EXCEPT !.blob.nonce = [id |-> 999, len |-> gcmNonceSize]]
      [] kind = "salt"   -> [r EXCEPT !.salt.len = 12]
      [] kind = "short"  -> [r EXCEPT !.blob.len = gcmNonceSize]

DamagedStore(kind) ==
    [GoodStore EXCEPT !.rows = {IF r.username = "alice" THEN Damage(r, kind) ELSE r :
                                   r \in @}]

\* The vault directory as the programs find it: no vault.db yet, or one with
\* two credentials, of which alice's may be damaged.
DiskStores ==
    {<<>>, StoreDir :> GoodStore} \cup {StoreDir :> DamagedStore(k) : k \in Damages}

StoreInit ==
    /\ sess = NoSession
    /\ heap = <<>>
    /\ now = 0
    /\ osenv = LoginEnv
    /\ headers = InitHeaders
    /\ dbs \in DiskStores
    /\ issued = 0
    /\ rng = 0
    /\ req = Digest(NoFrame)
    /\ resp = NoResp
    /\ ret = NoRet
    /\ svc = NoService
    /\ cli = NoCli
    /\ call = NoCall
    /\ proc = NoProc
    /\ bg = NoBg
    /\ nm = NoNm
    /\ rd = NoRd

\* The faults that can show in a call on a user's credential: rand.Read
\* failing, the UPDATE of a rotation failing.
StoreFaults(user, F) == IF user = "alice" THEN {"none"} \cup F ELSE {"none"}

\* The faults that can show while a master password is changed to new.
MasterFaults(new) == IF new = "Correct-Horse-9!" THEN HeaderFaults ELSE {"none"}

\* service.New(vaultDir)
SvcNew(D) ==
    /\ ~svc.open
    /\ \E dir \in D : \E o \in {ServiceNew(dbs, dir)} :
        /\ svc' = o.svc /\ dbs' = o.dbs
        /\ call' = Called("Service.New", dir, "", "", "", <<>>)
    /\ UNCHANGED <<rd, bg, nm, proc, sess, heap, now, osenv, headers, issued, rng, req, resp, ret, cli>>

\* Service.Unlock(master)
SvcUnlock(P) ==
    /\ svc.open
    /\ \E pw \in P : \E u \in {ServiceUnlock(svc.dir, pw)} :
        /\ svc' = IF u.err = "" THEN [svc EXCEPT !.mek = u.mek] ELSE svc
        /\ call' = [Called("Service.Unlock", svc.dir, "", "", u.err, <<>>)
                       EXCEPT !.master = pw]
    /\ UNCHANGED <<rd, bg, nm, proc, sess, heap, now, osenv, headers, dbs, issued, rng, req, resp, ret, cli>>

\* Service.Add(website, username, plaintext)
SvcAdd(U, S) ==
    /\ svc.dir # ""
    /\ \E user \in U, secret \in S : \E f \in StoreFaults(user, {"rand"}) :
       \E o \in {ServiceAdd(dbs[svc.dir], svc.mek, StoreSite, user, secret,
                            f # "rand", rng + 1)} :
        /\ rng' = IF o.drew THEN rng + 1 ELSE rng
        /\ rng' <= MaxRng
        /\ dbs' = [dbs EXCEPT ![svc.dir] = o.db]
        /\ call' = [Called("Service.Add", svc.dir, StoreSite, user, o.err, <<>>)
                       EXCEPT !.secret = secret]
    /\ UNCHANGED <<rd, bg, nm, proc, sess, heap, now, osenv, headers, issued, req, resp, ret, svc, cli>>

\* Service.Get(website, username)
SvcGet(U) ==
    /\ svc.dir # ""
    /\ \E user \in U : \E f \in StoreFaults(user, {"rand", "io"}) :
       \E o \in {ServiceGet(dbs[svc.dir], svc.mek, StoreSite, user,
                            f # "rand", rng + 1, f # "io")} :
        /\ rng' = IF o.drew THEN rng + 1 ELSE rng
        /\ rng' <= MaxRng
        /\ dbs' = [dbs EXCEPT ![svc.dir] = o.db]
        /\ call' = Called("Service.Get", svc.dir, StoreSite, user, o.err,
                          IF o.plain = "" THEN <<>>
                          ELSE <<[username |-> user, password |-> o.plain]>>)
    /\ UNCHANGED <<rd, bg, nm, proc, sess, heap, now, osenv, headers, issued, req, resp, ret, svc, cli>>

\* Service.Update(website, username, newType, newPlaintext)
SvcUpdate(U, S) ==
    /\ svc.dir # ""
    /\ \E user \in U, typ \in {"", "note"}, secret \in S :
       \E o \in {ServiceUpdate(dbs[svc.dir], svc.mek, StoreSite, user, typ, secret,
                               TRUE, rng + 1)} :
        /\ rng' = IF o.drew THEN rng + 1 ELSE rng
        /\ rng' <= MaxRng
        /\ dbs' = [dbs EXCEPT ![svc.dir] = o.db]
        /\ call' = [Called("Service.Update", svc.dir, StoreSite, user, o.err, <<>>)
                       EXCEPT !.secret = secret]
    /\ UNCHANGED <<rd, bg, nm, proc, sess, heap, now, osenv, headers, issued, req, resp, ret, svc, cli>>

\* Service.Delete(website, username)
SvcDelete(U) ==
    /\ svc.dir # ""
    /\ \E user \in U : \E o \in {ServiceDelete(dbs[svc.dir], svc.mek, StoreSite, user)} :
        /\ dbs' = [dbs EXCEPT ![svc.dir] = o.db]
        /\ call' = Called("Service.Delete", svc.dir, StoreSite, user, o.err, <<>>)
    /\ UNCHANGED <<rd, bg, nm, proc, sess, heap, now, osenv, headers, issued, rng, req, resp, ret, svc, cli>>

\* `pm session --dir`: the prompt is reached when runSession succeeds.
CliSession(D, P) ==
    /\ cli = NoCli
    /\ \E dir \in D, pw \in P : \E o \in {runSession(dbs, dir, pw)} :
        /\ cli' = IF o.err = "" THEN [dir |-> dir, mek |-> o.mek] ELSE cli
        /\ dbs' = o.dbs
        /\ call' = [Called("cli.session", dir, "", "", o.err, <<>>) EXCEPT !.master = pw]
    /\ UNCHANGED <<rd, bg, nm, proc, sess, heap, now, osenv, headers, issued, rng, req, resp, ret, svc>>

\* `add --site --user` at the prompt of a session.
CliAdd(U, S) ==
    /\ cli # NoCli
    /\ \E user \in U, secret \in S :
       \E o \in {sessionAdd(dbs[cli.dir], cli.mek, StoreSite, user, "password", secret,
                            TRUE, rng + 1)} :
        /\ rng' = IF o.drew THEN rng + 1 ELSE rng
        /\ rng' <= MaxRng
        /\ dbs' = [dbs EXCEPT ![cli.dir] = o.db]
        /\ call' = [Called("cli.add", cli.dir, StoreSite, user, o.err, <<>>)
                       EXCEPT !.secret = secret]
    /\ UNCHANGED <<rd, bg, nm, proc, sess, heap, now, osenv, headers, issued, req, resp, ret, svc, cli>>

\* `get --site [--user]` at the prompt of a session.
CliGet(U) ==
    /\ cli # NoCli
    /\ \E user \in U : \E o \in {sessionGet(dbs[cli.dir], cli.mek, StoreSite, user)} :
        /\ call' = Called("cli.get", cli.dir, StoreSite, user, o.err, o.out)
    /\ UNCHANGED <<rd, bg, nm, proc, sess, heap, now, osenv, headers, dbs, issued, rng, req, resp, ret,
                   svc, cli>>

\* The pages the browser shows while the other programs run.
StoreGetFrames  == Live([PageGet EXCEPT !.username = ""], {"n1", "n2"})
StoreSaveFrames == Live(PageSave, {"n3"})

\* The native host, the desktop application (through Service) and `pm
\* session` working on the vault directory /v1, whose vault.db any of them may
\* be the first to create.
StoreNext ==
    \/ Unlock(PageUnlockFrames)
    \/ GetCredentials(StoreGetFrames)
    \/ SaveCredential(StoreSaveFrames)
    \/ SvcNew({StoreDir})
    \/ SvcUnlock({"pw1"})
    \/ SvcAdd(StoreUsers, {"hunter2"})
    \/ SvcGet(StoreUsers)
    \/ SvcUpdate({"alice"}, {"s3cret"})
    \/ SvcDelete({"alice"})
    \/ CliSession({StoreDir}, {"pw1"})
    \/ CliAdd({"alice"}, {"hunter2"})
    \/ CliGet({"", "alice"})

StoreSpec == StoreInit /\ [][StoreNext]_vars

\* The desktop application alone, holding a Service over /v1 whose MEK was
\* set (MekSetUnsafe) to a key of 32 bytes or, as an unlock of a header made
\* elsewhere can leave it, of 16; vault.db is as vault.Open made it, empty or
\* with one credential of bob stored under that MEK.  rand.Read works.
EntryMEKs    == {Bytes(mekLen, 7), Bytes(mekLen, 8), Bytes(16, 9)}
EntrySecrets == {"hunter2", "s3cret", "p"}

EntryStores(mek) ==
    {PlainDB} \cup (IF mek.len = mekLen
                    THEN {Stored(PlainDB, mek, "bob", p, 101) : p \in EntrySecrets}
                    ELSE {})

EntryInit ==
    /\ sess = NoSession
    /\ heap = <<>>
    /\ now = 0
    /\ osenv = LoginEnv
    /\ headers = InitHeaders
    /\ \E mek \in EntryMEKs :
        /\ svc = [open |-> TRUE, dir |-> StoreDir, mek |-> mek]
        /\ \E db \in EntryStores(mek) : dbs = (StoreDir :> db)
    /\ issued = 0
    /\ rng = 0
    /\ req = Digest(NoFrame)
    /\ resp = NoResp
    /\ ret = NoRet
    /\ cli = NoCli
    /\ call = NoCall
    /\ proc = NoProc
    /\ bg = NoBg
    /\ nm = NoNm
    /\ rd = NoRd

EntryNext ==
    \/ SvcAdd({"bob"}, EntrySecrets)
    \/ SvcGet({"bob"})
    \/ SvcUpdate({"bob"}, EntrySecrets)
    \/ SvcDelete({"bob"})

EntrySpec == EntryInit /\ [][EntryNext]_vars

\* Service.ChangeMaster(oldMaster, newMaster).  The vault's own salt and
\* nonce were the first draw of header material; a change draws the next.
\* A process that is killed holds no Service any more.
SvcChangeMaster(O, N) ==
    /\ svc.open
    /\ \E old \in O, new \in N : \E f \in MasterFaults(new) :
       \E o \in {ChangeMaster(svc.dir, svc.mek, old, new, f, rng + 2)} :
        /\ rng' = IF o.err = "" THEN rng + 1 ELSE rng
        /\ rng' <= MaxRng
        /\ headers' = o.headers
        /\ svc' = IF o.err = "killed" THEN NoService ELSE [svc EXCEPT !.mek = o.mek]
        /\ call' = [Called("Service.ChangeMaster", svc.dir, "", "", o.err, <<>>)
                       EXCEPT !.master = old, !.newMaster = new]
    /\ UNCHANGED <<rd, bg, nm, proc, sess, heap, now, osenv, dbs, issued, req, resp, ret, cli>>

\* `pm master change --dir`
CliMasterChange(D, O, N) ==
    /\ \E dir \in D, old \in O, new \in N : \E f \in MasterFaults(new) :
       \E o \in {runMasterChange(dir, old, new, f, rng + 2)} :
        /\ rng' = IF o.err = "" THEN rng + 1 ELSE rng
        /\ rng' <= MaxRng
        /\ headers' = o.headers
        /\ call' = [Called("cli.master.change", dir, "", "", o.err, <<>>)
                       EXCEPT !.master = old, !.newMaster = new]
    /\ UNCHANGED <<rd, bg, nm, proc, sess, heap, now, osenv, dbs, issued, req, resp, ret, svc, cli>>

\* The desktop application and the command line changing the master password
\* of the directories a user may name, with every fault the replacement of
\* header.json can meet, while the desktop application unlocks its vault;
\* vault.db of /v1 holds two credentials.
MasterDirs == {"/v1", "/v16", "/kdf", "/salt", "/junk", "/none"}
OldMasters == {"", "pw1", "wrong", "Correct-Horse-9!"}

MasterInit ==
    /\ sess = NoSession
    /\ heap = <<>>
    /\ now = 0
    /\ osenv = LoginEnv
    /\ headers = InitHeaders
    /\ dbs = (StoreDir :> GoodStore)
    /\ issued = 0
    /\ rng = 0
    /\ req = Digest(NoFrame)
    /\ resp = NoResp
    /\ ret = NoRet
    /\ svc = NoService
    /\ cli = NoCli
    /\ call = NoCall
    /\ proc = NoProc
    /\ bg = NoBg
    /\ nm = NoNm
    /\ rd = NoRd

MasterNext ==
    \/ SvcNew(MasterDirs)
    \/ SvcUnlock({"pw1"} \cup StrongPasswords)
    \/ SvcChangeMaster(OldMasters, NewPasswords)
    \/ CliMasterChange(MasterDirs, {"pw1", "wrong"}, NewPasswords)

MasterSpec == MasterInit /\ [][MasterNext]_vars

-----------------------------------------------------------------------------
(* The desktop application and `pm master` on a directory without a vault *)

\* The faults that can show while the master password pw is set: those of a
\* change, and a kill at each point of SaveVaultHeader.
SetupFaults(pw) ==
    IF pw = "Correct-Horse-9!" THEN HeaderFaults \cup KillPoints ELSE {"none"}

\* Service.NeedsMasterSetup()
SvcNeedsSetup ==
    /\ svc.open
    /\ \E o \in {NeedsMasterSetup(svc.dir)} :
        call' = Called("Service.NeedsMasterSetup", svc.dir, "", "", o.err,
                       <<IF o.need THEN "true" ELSE "false">>)
    /\ UNCHANGED <<rd, bg, nm, proc, sess, heap, now, osenv, headers, dbs, issued, rng, req, resp, ret,
                   svc, cli>>

\* Service.SetMaster(user, master).  The draws that reached header.json are
\* spent, also when the process was killed after the rename.
SvcSetMaster(U, P) ==
    /\ svc.open
    /\ \E user \in U, pw \in P : \E f \in SetupFaults(pw) :
       \E o \in {SetMaster(svc.dir, svc.mek, user, pw, f, rng + 2)} :
        /\ rng' = IF o.headers # headers THEN rng + 1 ELSE rng
        /\ rng' <= MaxRng
        /\ headers' = o.headers
        /\ svc' = IF o.err = "killed" THEN NoService ELSE [svc EXCEPT !.mek = o.mek]
        /\ call' = [Called("Service.SetMaster", svc.dir, "", user, o.err, <<>>)
                       EXCEPT !.master = pw]
    /\ UNCHANGED <<rd, bg, nm, proc, sess, heap, now, osenv, dbs, issued, req, resp, ret, cli>>

\* `pm master set --dir --user`
CliMasterSet(D, U, P) ==
    /\ \E dir \in D, user \in U, pw \in P : \E f \in SetupFaults(pw) :
       \E o \in {runMasterSet(dir, user, pw, f, rng + 2)} :
        /\ rng' = IF o.headers # headers THEN rng + 1 ELSE rng
        /\ rng' <= MaxRng
        /\ headers' = o.headers
        /\ call' = [Called("cli.master.set", dir, "", user, o.err, <<>>)
                       EXCEPT !.master = pw]
    /\ UNCHANGED <<rd, bg, nm, proc, sess, heap, now, osenv, dbs, issued, req, resp, ret, svc, cli>>

\* Service.List()
SvcList ==
    /\ svc.dir # ""
    /\ \E o \in {ServiceList(dbs[svc.dir], svc.mek)} :
        call' = Called("Service.List", svc.dir, "", "", o.err, o.out)
    /\ UNCHANGED <<rd, bg, nm, proc, sess, heap, now, osenv, headers, dbs, issued, rng, req, resp, ret,
                   svc, cli>>

\* Service.Close()
SvcClose ==
    /\ svc.open
    /\ svc' = ServiceClose(svc)
    /\ call' = Called("Service.Close", svc.dir, "", "", "", <<>>)
    /\ UNCHANGED <<rd, bg, nm, proc, sess, heap, now, osenv, headers, dbs, issued, rng, req, resp, ret, cli>>

SetupUsers     == {"alice", "  "}
SetupPasswords == StrongPasswords \cup {"weak"}

\* Nothing is on disk yet: no header.json, no vault.db.
SetupInit ==
    /\ sess = NoSession
    /\ heap = <<>>
    /\ now = 0
    /\ osenv = LoginEnv
    /\ headers = <<>>
    /\ dbs = <<>>
    /\ issued = 0
    /\ rng = 0
    /\ req = Digest(NoFrame)
    /\ resp = NoResp
    /\ ret = NoRet
    /\ svc = NoService
    /\ cli = NoCli
    /\ call = NoCall
    /\ proc = NoProc
    /\ bg = NoBg
    /\ nm = NoNm
    /\ rd = NoRd

\* The desktop application making a vault in /v1, unlocking it, using and
\* closing it, while `pm master` sets and changes the master password of the
\* same directory.  Unlock, SetMaster and ChangeMaster are called on a
\* Service that was not closed; the calls on the entry store also on one that
\* was.
SetupNext ==
    \/ SvcNew({StoreDir})
    \/ SvcNeedsSetup
    \/ SvcSetMaster(SetupUsers, SetupPasswords)
    \/ SvcUnlock({"Correct-Horse-9!", "wrong"})
    \/ SvcChangeMaster({"Correct-Horse-9!", "wrong"}, SetupPasswords)
    \/ SvcAdd({"alice"}, {"hunter2"})
    \/ SvcGet({"alice"})
    \/ SvcUpdate({"alice"}, {"s3cret"})
    \/ SvcDelete({"alice"})
    \/ SvcList
    \/ SvcClose
    \/ CliMasterSet({StoreDir}, {"alice"}, SetupPasswords)
    \/ CliMasterChange({StoreDir}, {"Correct-Horse-9!"}, StrongPasswords)

SetupSpec == SetupInit /\ [][SetupNext]_vars

-----------------------------------------------------------------------------
(* The host process, step by step *)

\* The frames the browser sends under the token of the latest unlock: a
\* privileged request and a lock.
LoopFrames ==
    Live(PageGet, {"n1"}) \cup Live(Frame("lock", TRUE), {"n2"})

\* What arrives in the pipe: each of these frames whole; an empty payload;
\* an unlock of the vault, padded with spaces to exactly maxFrameSize bytes;
\* a payload of one byte more; a frame whose writer went away before the
\* payload was complete.
LoopItems ==
    {PipeItem(200, rq, FALSE) : rq \in LoopFrames}
    \cup {PipeItem(0, Frame("", FALSE), FALSE),
          PipeItem(maxFrameSize, UnlockFrame("v1", "pw1"), FALSE),
          PipeItem(maxFrameSize + 1, UnlockFrame("v1", "pw1"), FALSE),
          PipeItem(200, UnlockFrame("v1", "pw1"), TRUE)}

\* The browser writes a frame into the pipe, whatever the host is doing.
Arrive ==
    /\ proc.exit = "" /\ ~proc.eof /\ proc.sent < MaxFrames
    /\ \E item \in LoopItems :
        proc' = [proc EXCEPT !.stdin = Append(@, item), !.sent = @ + 1,
                             !.eof = item.cut]
    /\ UNCHANGED <<rd, bg, nm, sess, heap, now, osenv, headers, dbs, issued, rng, req, resp, ret,
                   svc, cli, call>>

\* The browser closes its end of the pipe.
CloseStdin ==
    /\ proc.exit = "" /\ ~proc.eof
    /\ proc' = [proc EXCEPT !.eof = TRUE]
    /\ UNCHANGED <<rd, bg, nm, sess, heap, now, osenv, headers, dbs, issued, rng, req, resp, ret,
                   svc, cli, call>>

\* main: readFrame returns.  On an error main returns and the process ends;
\* on a payload handleRequest is entered, and what it will have done when it
\* returns is fixed by the state it starts in.
MainRead ==
    /\ proc.exit = "" /\ proc.pc = "read"
    /\ \E r \in {readFrame(proc.stdin, proc.eof)} :
        /\ r.err # "wait"
        /\ IF r.err # ""
           THEN proc' = [proc EXCEPT !.stdin = r.rest, !.pc = "exit",
                                     !.exit = IF r.err = "EOF" THEN "eof"
                                              ELSE "read error"]
           ELSE \E f \in Faults(Unauthed(r.payload)) : \E o \in {Turn(r.payload, f)} :
                /\ InBounds(o)
                /\ proc' = [proc EXCEPT
                              !.stdin = r.rest, !.taken = @ + 1, !.pc = "handle",
                              !.job = [rq |-> r.payload, size |-> Head(proc.stdin).size,
                                       parts |-> Parts(r.payload, o), fault |-> f,
                                       out |-> o]]
    /\ UNCHANGED <<rd, bg, nm, sess, heap, now, osenv, headers, dbs, issued, rng, req, resp, ret,
                   svc, cli, call>>

\* main enters a method of sessionState: s.mutex.Lock().
MainLock ==
    /\ proc.exit = "" /\ proc.pc = "handle" /\ proc.job.parts # <<>>
    /\ holdsMutex(Head(proc.job.parts))
    /\ proc.mu = ""
    /\ proc' = [proc EXCEPT !.mu = "main", !.pc = "held"]
    /\ UNCHANGED <<rd, bg, nm, sess, heap, now, osenv, headers, dbs, issued, rng, req, resp, ret,
                   svc, cli, call>>

\* main leaves the method: what the method does to the session, and the
\* deferred s.mutex.Unlock().  What validateRequest returns decides how the
\* handler goes on, so the rest of the handler follows the session as
\* validateRequest found it.
MainUnlock ==
    /\ proc.exit = "" /\ proc.pc = "held"
    /\ LET part == Head(proc.job.parts)
           rq   == proc.job.rq
           m    == [sess |-> sess, heap |-> heap]
           o    == IF part = "validateRequest" THEN Turn(rq, proc.job.fault)
                   ELSE proc.job.out
           n    == CASE part = "clear" -> clear(m)
                     [] part = "validateRequest" ->
                            validateRequest(m, rq.sessionToken, rq.nonce, now, osenv)
                     [] part = "establish" -> o
                     [] OTHER -> m
       IN  /\ sess' = n.sess /\ heap' = n.heap
           /\ issued' = IF part = "establish" THEN o.issued ELSE issued
           /\ proc' = [proc EXCEPT !.mu = "", !.pc = "handle", !.job.out = o,
                                   !.job.parts = IF part = "validateRequest"
                                                 THEN Tail(Parts(rq, o)) ELSE Tail(@)]
    /\ UNCHANGED <<rd, bg, nm, now, osenv, headers, dbs, rng, req, resp, ret, svc, cli, call>>

\* main does the part of a handler that is outside sessionState: the header
\* is loaded, the key derived and the MEK unwrapped; or the gate is
\* evaluated and vault.db read and written.
MainWork ==
    /\ proc.exit = "" /\ proc.pc = "handle" /\ proc.job.parts # <<>>
    /\ ~holdsMutex(Head(proc.job.parts))
    /\ proc' = [proc EXCEPT !.job.parts = Tail(@)]
    /\ UNCHANGED <<rd, bg, nm, sess, heap, now, osenv, headers, dbs, issued, rng, req, resp, ret,
                   svc, cli, call>>

\* handleRequest returns its response: the state is as the handler leaves
\* it, with the session as the signal goroutine's clear() left it when that
\* ran since the handler's last use of the session.
MainReturn ==
    /\ proc.exit = "" /\ proc.pc = "handle" /\ proc.job.parts = <<>>
    /\ \E o \in {proc.job.out} :
       \E n \in {IF sess = o.sess THEN [sess |-> o.sess, heap |-> o.heap]
                 ELSE clear([sess |-> o.sess, heap |-> o.heap])} :
        /\ sess' = n.sess /\ heap' = n.heap /\ dbs' = o.dbs
        /\ issued' = o.issued /\ rng' = o.rng
        /\ resp' = o.resp /\ ret' = o.ret /\ req' = Digest(proc.job.rq)
        /\ call' = HostCall
    /\ proc' = [proc EXCEPT !.pc = "write"]
    /\ UNCHANGED <<rd, bg, nm, now, osenv, headers, svc, cli>>

\* main: writeFrame(writer, resp).  When it fails main returns.
MainWrite ==
    /\ proc.exit = "" /\ proc.pc = "write"
    /\ \E ok \in BOOLEAN :
       \E w \in {writeFrame(proc.stdout,
                            [n |-> proc.taken, size |-> proc.job.size, resp |-> resp],
                            ok)} :
        proc' = IF w.err # ""
                THEN [proc EXCEPT !.pc = "exit", !.exit = "write error"]
                ELSE [proc EXCEPT !.pc = "read", !.stdout = w.out, !.job = NoJob]
    /\ UNCHANGED <<rd, bg, nm, sess, heap, now, osenv, headers, dbs, issued, rng, req, resp, ret,
                   svc, cli, call>>

\* SIGINT or SIGTERM is delivered: the signal goroutine's <-sigCh returns.
Signal ==
    /\ proc.exit = "" /\ proc.sig = "waiting"
    /\ proc' = [proc EXCEPT !.sig = "received"]
    /\ UNCHANGED <<rd, bg, nm, sess, heap, now, osenv, headers, dbs, issued, rng, req, resp, ret,
                   svc, cli, call>>

\* The signal goroutine enters sess.clear(): s.mutex.Lock().
SigLock ==
    /\ proc.exit = "" /\ proc.sig = "received"
    /\ proc.mu = ""
    /\ proc' = [proc EXCEPT !.mu = "signal", !.sig = "clearing"]
    /\ UNCHANGED <<rd, bg, nm, sess, heap, now, osenv, headers, dbs, issued, rng, req, resp, ret,
                   svc, cli, call>>

\* The signal goroutine leaves sess.clear().
SigUnlock ==
    /\ proc.exit = "" /\ proc.sig = "clearing"
    /\ \E n \in {onSignal([sess |-> sess, heap |-> heap])} :
        sess' = n.sess /\ heap' = n.heap
    /\ proc' = [proc EXCEPT !.mu = "", !.sig = "cleared"]
    /\ UNCHANGED <<rd, bg, nm, now, osenv, headers, dbs, issued, rng, req, resp, ret, svc, cli, call>>

\* The signal goroutine calls os.Exit(0): the process ends where it is.
SigExit ==
    /\ proc.exit = "" /\ proc.sig = "cleared"
    /\ proc' = [proc EXCEPT !.sig = "exited", !.exit = "signal"]
    /\ UNCHANGED <<rd, bg, nm, sess, heap, now, osenv, headers, dbs, issued, rng, req, resp, ret,
                   svc, cli, call>>

\* One host process from its start to its end, the browser at the other end
\* of its pipes, and a signal that may arrive at any moment.
LoopNext ==
    \/ Arrive
    \/ CloseStdin
    \/ MainRead
    \/ MainLock
    \/ MainUnlock
    \/ MainWork
    \/ MainReturn
    \/ MainWrite
    \/ Signal
    \/ SigLock
    \/ SigUnlock
    \/ SigExit

LoopSpec == Init /\ [][LoopNext]_vars

\* A goroutine that holds the mutex goes on to release it, and a goroutine
\* that is runnable runs: the methods of sessionState wait for nothing.  A
\* goroutine waiting for the mutex gets it (sync.Mutex hands it over to a
\* waiter that has waited for 1ms).  Nothing is assumed of the browser, of the
\* pipes, of the disk or of the key derivation.
LoopFairSpec ==
    /\ LoopSpec
    /\ WF_vars(MainUnlock)
    /\ SF_vars(SigLock) /\ WF_vars(SigUnlock) /\ WF_vars(SigExit)

-----------------------------------------------------------------------------
(* The background page, message by message *)

\* A new handler starts on a message from frame f of tab t.
Started(b, type, t, f) == [b EXCEPT !.hs = Append(@, Handler(type, t, f, "start"))]

\* A handler suspends at an await.
Await(b, i, pc) == [b EXCEPT !.hs[i].pc = pc]

\* A handler sends its response outside the try block.
Reply(b, i, a) == [b EXCEPT !.hs[i].answer = a, !.hs[i].pc = "done"]

\* A variant of Finish without the finally clause.
Finish_keeping(b, i, a) == Reply(b, i, a)

\* A handler sends its response inside the try block: sendResponse, then the
\* finally clause's setFrameContext(undefined, undefined).
Finish(b, i, a) == [Reply(b, i, a) EXCEPT !.ctx = NoCtx]

\* The context as the handler's setFrameContext call leaves it.
WithContext(b, t, f) == [b EXCEPT !.ctx = setFrameContext(b.ctx, t, f)]

\* onMessage REQUEST_FILL from frame f of tab t, up to its first await.
OnRequestFill(T, F) ==
    /\ Len(bg.hs) < MaxMessages
    /\ \E t \in T : \E f \in F :
       \E url \in {"", "::", "https://login.example.com/"} : \E unlocked \in BOOLEAN :
        LET i == Len(bg.hs) + 1
            b == Started(bg, "REQUEST_FILL", t, f)
        IN  bg' = IF url = ""
                  THEN Reply(b, i, Answer(FALSE, "BAD_REQUEST", <<>>, ""))
                  ELSE IF ~unlocked
                  THEN Reply(b, i, Answer(FALSE, "LOCKED", <<>>, ""))
                  ELSE IF url = "::"
                  THEN Finish(WithContext(b, t, f), i,
                              Answer(FALSE, "NATIVE_ERROR", <<>>, ""))
                  ELSE Await(WithContext(b, t, f), i, "safeBrowsing")
    /\ UNCHANGED <<rd, nm, proc, sess, heap, now, osenv, headers, dbs, issued, rng, req, resp,
                   ret, svc, cli, call>>

\* onMessage SAVE_CREDENTIAL naming tab t, up to its first await.  The
\* context is set to frame 0 of the tab the message names.
OnSaveCredential(T, F) ==
    /\ Len(bg.hs) < MaxMessages
    /\ \E t \in T : \E f \in F :
       \E url \in {"", "https://login.example.com/"} : \E unlocked \in BOOLEAN :
       \E form \in {"given", "missing"} :
        LET i == Len(bg.hs) + 1
            b == Started(bg, "SAVE_CREDENTIAL", t, f)
        IN  bg' = IF ~unlocked
                  THEN Reply(b, i, Answer(FALSE, "LOCKED", <<>>, ""))
                  ELSE IF url = ""
                  THEN Await(b, i, IF form = "given" THEN "tabGet" ELSE "tabGetScrape")
                  ELSE Await(WithContext(b, t, 0), i,
                             IF form = "given" THEN "safeBrowsing" ELSE "scrape")
    /\ UNCHANGED <<rd, nm, proc, sess, heap, now, osenv, headers, dbs, issued, rng, req, resp,
                   ret, svc, cli, call>>

\* SAVE_CREDENTIAL: chrome.tabs.get(tabId) settled.
TabGot ==
    /\ \E i \in 1..Len(bg.hs) : \E found \in BOOLEAN :
        LET h == bg.hs[i]
        IN  /\ h.pc \in {"tabGet", "tabGetScrape"}
            /\ bg' = IF ~found
                     THEN Reply(bg, i, Answer(FALSE, "NO_URL", <<>>, ""))
                     ELSE Await(WithContext(bg, h.tabId, 0), i,
                                IF h.pc = "tabGet" THEN "safeBrowsing" ELSE "scrape")
    /\ UNCHANGED <<rd, nm, proc, sess, heap, now, osenv, headers, dbs, issued, rng, req, resp,
                   ret, svc, cli, call>>

\* SAVE_CREDENTIAL: chrome.tabs.sendMessage(SCRAPE_ACTIVE_FORM) settled.
Scraped ==
    /\ \E i \in 1..Len(bg.hs) : \E got \in BOOLEAN :
        /\ bg.hs[i].pc = "scrape"
        /\ bg' = IF ~got
                 THEN Reply(bg, i, Answer(FALSE, "NO_FORM_DATA", <<>>, ""))
                 ELSE Await(bg, i, "safeBrowsing")
    /\ UNCHANGED <<rd, nm, proc, sess, heap, now, osenv, headers, dbs, issued, rng, req, resp,
                   ret, svc, cli, call>>

\* ensureSafeBrowsingEnabled settled.  When it is enabled the handler calls
\* evaluatePageForAutofill, which calls isTopLevelFrame and then
\* nmPhishingCheck.
SafeBrowsingDone ==
    /\ \E i \in 1..Len(bg.hs) : \E enabled \in BOOLEAN :
        /\ bg.hs[i].pc = "safeBrowsing"
        /\ bg' = IF ~enabled
                 THEN Await(bg, i, "warning")
                 ELSE [Await(bg, i, "phishing")
                          EXCEPT !.hs[i].top = isTopLevelFrame(bg.ctx)]
    /\ UNCHANGED <<rd, nm, proc, sess, heap, now, osenv, headers, dbs, issued, rng, req, resp,
                   ret, svc, cli, call>>

\* showSafeBrowsingWarning settled.
WarningShown ==
    /\ \E i \in 1..Len(bg.hs) :
        /\ bg.hs[i].pc = "warning"
        /\ bg' = Finish(bg, i, Answer(FALSE, "SAFE_BROWSING_REQUIRED", <<>>, ""))
    /\ UNCHANGED <<rd, nm, proc, sess, heap, now, osenv, headers, dbs, issued, rng, req, resp,
                   ret, svc, cli, call>>

\* nmPhishingCheck settled: the verdict, and what the handler does with it.
PhishingDone ==
    /\ \E i \in 1..Len(bg.hs) : \E base \in {"ok", "noetld", "blocked", "failed"} :
        LET h == bg.hs[i]
            v == evaluatePageForAutofill(h.top, base)
            b == [bg EXCEPT !.hs[i].verdict = v, !.hs[i].judged = TRUE]
        IN  /\ h.pc = "phishing"
            /\ bg' = IF ~v.ok
                     THEN Finish(b, i, Answer(FALSE, "PHISHING_BLOCK", v.reasons, ""))
                     ELSE IF v.etld1 = ""
                     THEN Finish(b, i, Answer(FALSE, "ETLD_INVALID", <<>>, ""))
                     ELSE Await(b, i, "native")
    /\ UNCHANGED <<rd, nm, proc, sess, heap, now, osenv, headers, dbs, issued, rng, req, resp,
                   ret, svc, cli, call>>

\* nmGet or nmSave settled.
NativeDone ==
    /\ \E i \in 1..Len(bg.hs) : \E out \in {"ok", "none", "UNAUTHORIZED", "DB_ERROR"} :
        LET h == bg.hs[i]
        IN  /\ h.pc = "native"
            /\ out = "none" => h.type = "REQUEST_FILL"
            /\ bg' = CASE out = "ok" ->
                            Finish(bg, i, Answer(TRUE, "", <<>>,
                                                 IF h.type = "REQUEST_FILL"
                                                 THEN "credentials" ELSE ""))
                       [] out = "none" ->
                            Finish(bg, i, Answer(FALSE, "NO_CREDENTIALS", <<>>, ""))
                       [] out = "UNAUTHORIZED" -> Await(bg, i, "locking")
                       [] OTHER -> Finish(bg, i, Answer(FALSE, out, <<>>, ""))
    /\ UNCHANGED <<rd, nm, proc, sess, heap, now, osenv, headers, dbs, issued, rng, req, resp,
                   ret, svc, cli, call>>

\* session.lock() settled in the catch clause.
LockDone ==
    /\ \E i \in 1..Len(bg.hs) :
        /\ bg.hs[i].pc = "locking"
        /\ bg' = Finish(bg, i, Answer(FALSE, "UNAUTHORIZED", <<>>, ""))
    /\ UNCHANGED <<rd, nm, proc, sess, heap, now, osenv, headers, dbs, issued, rng, req, resp,
                   ret, svc, cli, call>>

\* The background page serving the content scripts of two tabs, each with its
\* top-level frame and an embedded frame: every handler runs from one await
\* to the next without interruption, and handlers interleave at their awaits.
FillNext ==
    \/ OnRequestFill({1, 2}, {0, 5})
    \/ OnSaveCredential({1, 2}, {0, 5})
    \/ TabGot
    \/ Scraped
    \/ SafeBrowsingDone
    \/ WarningShown
    \/ PhishingDone
    \/ NativeDone
    \/ LockDone

FillSpec == Init /\ [][FillNext]_vars

-----------------------------------------------------------------------------
(* A read of a row, statement by statement, beside the other program *)

\* handleGetCredentials as far as its SELECT (main.go:434-468): the request
\* is validated, the gate evaluated, vault.db opened and migrated and the
\* rows of the site fetched.  A request refused before the SELECT is
\* answered at once; otherwise the handler holds the rows and its copy of
\* the MEK, and the loop over the rows is to come.
handleGetCredentialsSelect(st, rq, t, e) ==
    LET v == validateRequest([sess |-> st.sess, heap |-> st.heap],
                             rq.sessionToken, rq.nonce, t, e)
        m == OpenAndMigrate(st.dbs, v.dir)
    IN
    IF \/ v.err # ""
       \/ rq.domainEtld1 = "" \/ rq.exactHost = ""
       \/ ~AllowAutofill(rq.domainEtld1, rq.exactHost, rq.requireExactHost, rq.exactHost)
       \/ m.err # ""
    THEN [out |-> handleGetCredentials(st, rq, TRUE, TRUE, t, e), fetch |-> NoFetch]
    ELSE
    LET db    == m.dbs[v.dir]
        found == GetEntryBySiteAndUser(db, rq.domainEtld1, rq.username)
    IN  [out   |-> [sess |-> v.sess, heap |-> v.heap, dbs |-> m.dbs,
                    issued |-> st.issued, rng |-> st.rng, resp |-> NoResp,
                    ret |-> Returned(v)],
         fetch |-> [on   |-> TRUE,
                    dir  |-> v.dir,
                    rows |-> IF ~IsBlank(rq.username)
                             THEN IF found = {} THEN <<>>
                                  ELSE <<CHOOSE r \in found : TRUE>>
                             ELSE GetEntryByWebsite(db, rq.domainEtld1),
                    mek  |-> v.heap[v.mek],
                    at   |-> v.mek]]

\* The rest of handleGetCredentials (main.go:463-480): decryptRow on the rows
\* that were fetched, its UpdateEntryCipher on vault.db as it is now, the
\* deferred zeroize of the MEK copy, and the answer.
handleGetCredentialsRotate(st, f) ==
    LET g == firstDecrypted(st.dbs[f.dir], f.mek, f.rows, TRUE, st.rng + 1)
    IN  Outcome([st EXCEPT !.heap = zeroize(st.heap, f.at),
                           !.dbs  = [st.dbs EXCEPT ![f.dir] = g.db],
                           !.rng  = IF g.ok THEN @ + 1 ELSE @],
                Ok([kind |-> "items", items |-> g.item]), NoRet)

\* The frames of the read: alice's credential, or whichever is first, for
\* example.com, under the token of the latest unlock.
RotateGetFrames == Live(PageGet, {"n1"}) \cup Live([PageGet EXCEPT !.username = ""], {"n2"})

\* The host takes a getCredentials frame and runs the handler to its SELECT.
GetSelect(F) ==
    /\ ~rd.host.on
    /\ \E rq \in F : \E s \in {handleGetCredentialsSelect(Current, rq, now, osenv)} :
        /\ sess' = s.out.sess /\ heap' = s.out.heap /\ dbs' = s.out.dbs
        /\ issued' = s.out.issued /\ rng' = s.out.rng
        /\ resp' = s.out.resp /\ ret' = s.out.ret /\ req' = Digest(rq)
        /\ call' = HostCall
        /\ rd' = [rd EXCEPT !.host = s.fetch]
    /\ UNCHANGED <<bg, nm, proc, now, osenv, headers, svc, cli>>

\* The host runs the handler from its SELECT to its answer.
GetRotate ==
    /\ rd.host.on
    /\ \E o \in {handleGetCredentialsRotate(Current, rd.host)} :
        /\ o.rng <= MaxRng
        /\ sess' = o.sess /\ heap' = o.heap /\ dbs' = o.dbs /\ rng' = o.rng
        /\ resp' = o.resp
        /\ rd' = [rd EXCEPT !.host = NoFetch]
    /\ UNCHANGED <<bg, nm, proc, now, osenv, headers, issued, req, ret, svc, cli, call>>

\* The host has one goroutine for its frames: an unlock is taken when no
\* getCredentials is under way.
HostUnlock == ~rd.host.on /\ Unlock(PageUnlockFrames)

\* Service.Get as far as its SELECT (service.go:349-364).
SvcGetSelect(U) ==
    /\ svc.dir # "" /\ ~rd.svc.on
    /\ \E user \in U :
        LET found == GetEntryBySiteAndUser(dbs[svc.dir], StoreSite, user) IN
        IF svc.mek = NoBytes \/ found = {}
        THEN /\ call' = Called("Service.Get", svc.dir, StoreSite, user,
                               ServiceGet(dbs[svc.dir], svc.mek, StoreSite, user,
                                          TRUE, rng + 1, TRUE).err, <<>>)
             /\ rd' = rd
        ELSE /\ call' = Called("Service.Get", svc.dir, StoreSite, user, "select", <<>>)
             /\ rd' = [rd EXCEPT !.svc = [on |-> TRUE, dir |-> svc.dir,
                                          rows |-> <<FirstRow(found)>>,
                                          mek |-> svc.mek, at |-> Nil]]
    /\ UNCHANGED <<bg, nm, proc, sess, heap, now, osenv, headers, dbs, issued, rng, req,
                   resp, ret, svc, cli>>

\* The rest of Service.Get (service.go:366-377).
SvcGetRotate ==
    /\ rd.svc.on
    /\ \E o \in {ServiceGetRotate(dbs[rd.svc.dir], rd.svc.mek, rd.svc.rows[1],
                                  TRUE, rng + 1, TRUE)} :
        /\ rng' = IF o.drew THEN rng + 1 ELSE rng
        /\ rng' <= MaxRng
        /\ dbs' = [dbs EXCEPT ![rd.svc.dir] = o.db]
        /\ call' = Called("Service.Get", rd.svc.dir, StoreSite, rd.svc.rows[1].username,
                          o.err,
                          IF o.plain = "" THEN <<>>
                          ELSE <<[username |-> rd.svc.rows[1].username,
                                  password |-> o.plain]>>)
        /\ rd' = [rd EXCEPT !.svc = NoFetch]
    /\ UNCHANGED <<bg, nm, proc, sess, heap, now, osenv, headers, issued, req, resp, ret,
                   svc, cli>>

\* The desktop application makes one call on its Service at a time.
SvcIdleNew    == ~rd.svc.on /\ SvcNew({StoreDir})
SvcIdleUnlock == ~rd.svc.on /\ SvcUnlock({"pw1"})
SvcIdleUpdate == ~rd.svc.on /\ SvcUpdate({"alice"}, {"s3cret"})
SvcIdleDelete == ~rd.svc.on /\ SvcDelete({"alice"})

\* The native host and the desktop application, two processes on the
\* vault.db of /v1, each statement of a read a step of its own.
RotateNext ==
    \/ HostUnlock
    \/ GetSelect(RotateGetFrames)
    \/ GetRotate
    \/ SvcIdleNew
    \/ SvcIdleUnlock
    \/ SvcGetSelect({"alice"})
    \/ SvcGetRotate
    \/ SvcIdleUpdate
    \/ SvcIdleDelete

RotateSpec == StoreInit /\ [][RotateNext]_vars

-----------------------------------------------------------------------------
(* The native messaging module, event by event *)

\* The calls that session.unlock has still to make: an nmUnlock for every
\* nmLock of its that is not settled.
Reserved(n) ==
    Cardinality({j \in 1..Len(n.calls) :
                    n.calls[j].then = "unlock" /\ ~Settled(n.calls[j])})

\* A handler of the background page calls nmGet, nmSave or nmUnlock.
NmGet ==
    /\ Len(nm.calls) + Reserved(nm) + 1 <= MaxCalls
    /\ nm' = drain(sendNative(nm, "get", ""), 0)
    /\ UNCHANGED <<rd, bg, proc, sess, heap, now, osenv, headers, dbs, issued, rng, req,
                   resp, ret, svc, cli, call>>

\* session.lock calls nmLock.
NmLock ==
    /\ Len(nm.calls) + Reserved(nm) + 1 <= MaxCalls
    /\ nm' = drain(sendNative(nm, "lock", ""), 0)
    /\ UNCHANGED <<rd, bg, proc, sess, heap, now, osenv, headers, dbs, issued, rng, req,
                   resp, ret, svc, cli, call>>

\* session.unlock with a token held: nmLock, and nmUnlock once that is
\* settled.
SessionUnlock ==
    /\ Len(nm.calls) + Reserved(nm) + 2 <= MaxCalls
    /\ nm' = drain(sendNative(nm, "lock", "unlock"), 0)
    /\ UNCHANGED <<rd, bg, proc, sess, heap, now, osenv, headers, dbs, issued, rng, req,
                   resp, ret, svc, cli, call>>

\* The host's response to the request in flight arrives: handleMessage.
PortMessage ==
    /\ \E i \in 1..Len(nm.calls) : \E ok \in BOOLEAN :
        /\ nm.calls[i].st = "posted" /\ nm.ports[nm.calls[i].port]
        /\ nm' = settle([nm EXCEPT !.persistentInFlight = FALSE,
                                   !.calls[i].st = "resolved", !.calls[i].ok = ok], i)
    /\ UNCHANGED <<rd, bg, proc, sess, heap, now, osenv, headers, dbs, issued, rng, req,
                   resp, ret, svc, cli, call>>

\* The host's end of a port goes away, with or without
\* chrome.runtime.lastError: the listener of ensurePersistentPort, then
\* handleDisconnect of the request in flight on that port.
PortDisconnect ==
    /\ \E p \in 1..Len(nm.ports) : \E msg \in {DisconnectedMsg, NoHostMsg} :
        /\ nm.ports[p]
        /\ LET n1   == [nm EXCEPT !.ports[p] = FALSE,
                                  !.persistentPort = IF @ = p THEN 0 ELSE @]
               open == {i \in 1..Len(nm.calls) :
                           nm.calls[i].st = "posted" /\ nm.calls[i].port = p}
           IN  nm' = IF open = {} THEN n1
                     ELSE runWithRetry([n1 EXCEPT !.persistentInFlight = FALSE],
                                       CHOOSE i \in open : TRUE, msg)
    /\ UNCHANGED <<rd, bg, proc, sess, heap, now, osenv, headers, dbs, issued, rng, req,
                   resp, ret, svc, cli, call>>

\* The background page's calls on the persistent port, the host's responses
\* and the ends of the port, each turn of the event loop a step.
PortNext ==
    \/ NmGet
    \/ NmLock
    \/ SessionUnlock
    \/ PortMessage
    \/ PortDisconnect

PortSpec == Init /\ [][PortNext]_vars

-----------------------------------------------------------------------------
(* Properties *)

\* The session as validateRequest sees it.
Machine == [sess |-> sess, heap |-> heap]

\* Every token a client could present: each one issued, and values never
\* issued.
AllTokens == {""} \cup {"tok" \o ToString(k) : k \in 0..(MaxTokens + 1)}

\* A step of the main loop that handled a frame (req' is that frame).
Served == now' = now /\ osenv' = osenv /\ call'.op = "host"

\* A step that handled a well-formed frame of a privileged command: the
\* handler called validateRequest(req'.sessionToken, req'.nonce).
Validates ==
    /\ Served
    /\ req'.json
    /\ req'.type \in {"lock", "getCredentials", "saveCredential"}

\* The request of the step presents the session's token before expiry.
PresentsToken ==
    /\ sess.token # ""
    /\ req'.sessionToken = sess.token
    /\ now <= sess.expires

\* The OS user is the session's owner, or one of the two is unresolvable.
OwnerAgrees ==
    \/ sess.ownerUID = ""
    \/ currentUserIdentifier(osenv) = ""
    \/ currentUserIdentifier(osenv) = sess.ownerUID

\* No session: validateRequest answers errUnauthorized whatever the token,
\* the nonce, the time and the OS user.
Locked ==
    /\ sess = NoSession
    /\ \A tk \in AllTokens : \A n \in Nonces : \A t \in {now, MaxNow} : \A e \in OSEnvs :
          validateRequest(Machine, tk, n, t, e).err = "unauthorized"

\* No key material is left in memory outside the session's own buffer.
NoResidue == Len(heap) = IF sess.mek = Nil THEN 0 ELSE 1

\* C1: in a session that has not expired (and whose owner check passes), a
\* privileged request that carries the session's token and a nonce an earlier
\* validateRequest accepted is answered NONCE_REPLAY; the session is left
\* exactly as it was, expires included; and the same token with a nonce not
\* yet used is then accepted.
C1_ReplayRejectedSessionKept ==
    [][ (Validates /\ PresentsToken /\ OwnerAgrees /\ req'.nonce \in sess.nonces)
        => /\ ~resp'.ok
           /\ resp'.code = "NONCE_REPLAY"
           /\ ret'.called /\ ret'.err = "nonce_replayed"
           /\ sess' = sess
           /\ sess'.expires = sess.expires
           /\ heap' = heap
           /\ \A n \in Nonces \ ({""} \cup sess.nonces) :
                 validateRequest([sess |-> sess', heap |-> heap'],
                                 sess.token, n, now, osenv).err = ""
      ]_vars

\* A replay was just rejected, and an unused nonce remains.
C1_Replayed ==
    /\ resp.code = "NONCE_REPLAY"
    /\ sess.token # ""
    /\ req.sessionToken = sess.token
    /\ req.nonce \in sess.nonces
    /\ Cardinality(sess.nonces) = 1

\* C2 (as the code has it): SESSION_EXPIRED and INVALID_STATE clear the
\* session -- MEK zeroized, token, dir, expiry and nonce set reset -- so that
\* every token is then answered UNAUTHORIZED; NONCE_REPLAY does not: the
\* session stays active under the same token with its MEK intact.
C2_ExpiryAndInvalidStateClear ==
    /\ (~resp.ok /\ resp.code \in {"SESSION_EXPIRED", "INVALID_STATE"})
          => (Locked /\ heap = <<>>)
    /\ (~resp.ok /\ resp.code = "NONCE_REPLAY")
          => /\ sess.token # ""
             /\ sess.token = req.sessionToken
             /\ req.nonce \in sess.nonces
             /\ LenAt(heap, sess.mek) = mekLen
             /\ heap[sess.mek].val # 0

\* An INVALID_STATE answer to a request that presented a token.
C2_InvalidStateAnswered ==
    /\ resp.code = "INVALID_STATE"
    /\ req.sessionToken # ""
    /\ sess = NoSession

\* C2 as stated: after SESSION_EXPIRED, NONCE_REPLAY or INVALID_STATE there is
\* no session.
C2_AllThreeClear ==
    (~resp.ok /\ resp.code \in {"SESSION_EXPIRED", "NONCE_REPLAY", "INVALID_STATE"})
        => (sess.token = "" /\ sess.mek = Nil)

C4_OneSession ==
    [][ Served
        => /\ \A k \in 1..issued' :
                ("tok" \o ToString(k)) # sess'.token
                  => \A n \in Nonces :
                        validateRequest([sess |-> sess', heap |-> heap'],
                                        "tok" \o ToString(k), n, now, osenv).err # ""
           /\ (req'.json /\ req'.type = "unlock" /\ resp'.ok)
                => /\ sess'.token = resp'.data.token
                   /\ sess'.token \notin {"tok" \o ToString(k) : k \in 0..issued}
                   /\ sess'.nonces = {}
                   /\ sess'.expires = now + unlockTTL
                   /\ resp'.data.ttlSeconds = unlockTTL
                   /\ Len(heap') = 1
      ]_vars

\* A second unlock succeeded.
C4_SecondUnlock ==
    /\ issued = 2
    /\ req.type = "unlock"
    /\ resp.ok
    /\ sess.token = resp.data.token

\* C5 (as the code has it): if mek is non-empty then token and dir are set;
\* if token is empty then mek, dir and the nonce set are empty.  The MEK has
\* the length of the key the header wraps; it is known to have 32 bytes only
\* once a validateRequest has accepted a nonce.
C5_SessionInvariant ==
    /\ LenAt(heap, sess.mek) > 0 => (sess.token # "" /\ sess.dir # "")
    /\ sess.token = ""
          => /\ sess.mek = Nil
             /\ sess.dir = ""
             /\ sess.nonces = {}
    /\ sess.nonces # {} => LenAt(heap, sess.mek) = mekLen

\* A session holding a MEK that has not 32 bytes.
C5_ShortMEKHeld ==
    /\ sess.token # ""
    /\ sess.dir # ""
    /\ LenAt(heap, sess.mek) > 0
    /\ LenAt(heap, sess.mek) # mekLen

\* C5 as stated: a non-empty mek has 32 bytes (and token and dir are set); an
\* empty token means mek, dir and nonce set are empty.
C5_MEKAlways32 ==
    /\ LenAt(heap, sess.mek) > 0
          => (sess.token # "" /\ sess.dir # "" /\ LenAt(heap, sess.mek) = mekLen)
    /\ sess.token = ""
          => (sess.mek = Nil /\ sess.dir = "" /\ sess.nonces = {})

\* C6: a privileged request that presents the session's token before expiry
\* with a nonce while the OS user is resolvable, the session's owner is
\* resolvable, and the two differ, is answered UNAUTHORIZED, gets no MEK and
\* leaves the session as it was; when either identifier is empty the check
\* is skipped: a fresh nonce is accepted and the MEK returned.
C6_OwnerBinding ==
    [][ (Validates /\ PresentsToken /\ req'.nonce # "")
        => /\ ~OwnerAgrees
                => /\ ~resp'.ok
                   /\ resp'.code = "UNAUTHORIZED"
                   /\ ret'.err = "unauthorized"
                   /\ ret'.mek = NoBytes
                   /\ sess' = sess
           /\ ((sess.ownerUID = "" \/ currentUserIdentifier(osenv) = "")
               /\ req'.nonce \notin sess.nonces
               /\ LenAt(heap, sess.mek) = mekLen)
                => /\ ret'.err = ""
                   /\ ret'.mek = heap[sess.mek]
      ]_vars

\* The owner's token was refused to another OS user.
C6_OtherUserRefused ==
    /\ resp.code = "UNAUTHORIZED"
    /\ sess.token # ""
    /\ req.sessionToken = sess.token
    /\ req.nonce # ""
    /\ now <= sess.expires
    /\ sess.ownerUID # ""
    /\ currentUserIdentifier(osenv) # ""
    /\ currentUserIdentifier(osenv) # sess.ownerUID

\* C7: a lock request with the session's token and a fresh nonce (before
\* expiry, 32-byte MEK) is answered ok and clears the session, so that the
\* token is answered UNAUTHORIZED from then on; a lock request answered
\* UNAUTHORIZED leaves the session as it was.
C7_LockPrivileged ==
    [][ (Validates /\ req'.type = "lock")
        => /\ (PresentsToken /\ OwnerAgrees /\ LenAt(heap, sess.mek) = mekLen
               /\ req'.nonce # "" /\ req'.nonce \notin sess.nonces)
                => /\ resp'.ok
                   /\ Locked'
                   /\ heap' = <<>>
           /\ resp'.ok => (PresentsToken /\ req'.nonce \notin sess.nonces)
           /\ (~resp'.ok /\ resp'.code = "UNAUTHORIZED")
                => (sess' = sess /\ heap' = heap)
      ]_vars

\* A lock request was accepted.
C7_LockAccepted ==
    /\ req.type = "lock"
    /\ resp.ok
    /\ req.sessionToken # ""
    /\ ret.called /\ ret.err = ""
    /\ sess = NoSession

\* The header.json an unlock request names, as LoadVaultHeader finds it.
HeaderOf(rq) == LoadVaultHeader(Abs(rq.dir))

\* The causes for which an unlock with a directory and a password cannot open
\* the vault: header missing or corrupt, unsupported KDF, salt missing or not
\* base64, or a password other than the one the MEK was wrapped under.
CannotOpen(rq) ==
    \/ HeaderOf(rq).err # ""
    \/ HeaderOf(rq).hdr.KDF.Name # "argon2id"
    \/ HeaderOf(rq).hdr.Salt.kind # "b64"
    \/ HeaderOf(rq).hdr.WrappedMEK.raw.key.pw # rq.masterPassword

\* C8: an unlock (with a directory and a password) that fails because the
\* password is wrong, the header is missing or corrupt, the KDF is
\* unsupported or the salt is bad is answered UNLOCK_FAILED with the one
\* message "unlock failed"; no session exists afterwards, and validateRequest
\* answers UNAUTHORIZED to every token and nonce.
C8_FailedUnlock ==
    [][ (/\ Served
         /\ req'.json /\ req'.type = "unlock"
         /\ ~IsBlank(req'.dir) /\ req'.masterPassword # ""
         /\ CannotOpen(req'))
        => /\ resp' = Fail("UNLOCK_FAILED", "unlock failed")
           /\ Locked'
           /\ heap' = <<>>
      ]_vars

\* An unlock with a wrong password was refused.
C8_WrongPasswordRefused ==
    /\ req.type = "unlock"
    /\ req.masterPassword = "wrong"
    /\ resp.code = "UNLOCK_FAILED"
    /\ sess = NoSession

\* C9 (as the code has it): BAD_JSON, and the BAD_REQUEST of an unlock
\* without a directory, change nothing.  The BAD_REQUEST of an unlock without
\* a password comes after the session was cleared.  The BAD_REQUEST of
\* getCredentials and saveCredential comes after validateRequest succeeded:
\* the nonce is consumed and expires is now + unlockTTL, while token, mek and
\* dir are unchanged.  The entry store is unchanged in every case.
C9_BadRequestEffects ==
    [][ (Served /\ ~resp'.ok /\ resp'.code \in {"BAD_JSON", "BAD_REQUEST"})
        => /\ dbs' = dbs
           /\ resp'.code = "BAD_JSON" => (sess' = sess /\ heap' = heap)
           /\ (resp'.code = "BAD_REQUEST" /\ req'.type = "unlock" /\ IsBlank(req'.dir))
                => (sess' = sess /\ heap' = heap)
           /\ (resp'.code = "BAD_REQUEST" /\ req'.type = "unlock" /\ ~IsBlank(req'.dir))
                => (req'.masterPassword = "" /\ sess' = NoSession /\ heap' = <<>>)
           /\ (resp'.code = "BAD_REQUEST" /\ req'.type \in {"getCredentials", "saveCredential"})
                => /\ ret'.err = ""
                   /\ req'.nonce \notin sess.nonces
                   /\ sess' = [sess EXCEPT !.nonces = @ \cup {req'.nonce},
                                           !.expires = now + unlockTTL]
                   /\ heap' = heap
      ]_vars

\* A getCredentials answered BAD_REQUEST in a session, its nonce consumed.
C9_BadRequestConsumedNonce ==
    /\ req.type = "getCredentials"
    /\ resp.code = "BAD_REQUEST"
    /\ sess.token # ""
    /\ req.sessionToken = sess.token
    /\ req.nonce \in sess.nonces

\* C9 as stated: a request answered BAD_JSON or BAD_REQUEST leaves the session
\* and the entry store as they were.
C9_NoStateChange ==
    [][ (Served /\ ~resp'.ok /\ resp'.code \in {"BAD_JSON", "BAD_REQUEST"})
        => (sess' = sess /\ heap' = heap /\ dbs' = dbs)
      ]_vars

\* C10: the session's MEK is its own buffer: whatever the handlers zeroize,
\* it remains the key unwrapped from the header at unlock; each successful
\* validateRequest returns that key, 32 bytes, not zeroized; and the copies
\* the handlers held are zeroized when they return.
C10_SessionOwnsMEK ==
    /\ sess.mek # Nil
          => /\ heap[sess.mek] = headers[sess.dir].hdr.WrappedMEK.raw.pt
             /\ heap[sess.mek].val # 0
    /\ (ret.called /\ ret.err = "")
          => /\ ret.mek = headers[ret.dir].hdr.WrappedMEK.raw.pt
             /\ ret.mek.len = mekLen
             /\ ret.mek.val # 0
    /\ NoResidue

\* A second validateRequest succeeded in a session and got the MEK.
C10_LaterCopyReturned ==
    /\ ret.called /\ ret.err = ""
    /\ ret.mek = VaultMEK
    /\ Cardinality(sess.nonces) = 2
    /\ heap[sess.mek] = VaultMEK

-----------------------------------------------------------------------------
(* The domain gate *)

\* A step in which handleGetCredentials or handleSaveCredential got a session
\* from validateRequest and found the fields it requires in the request.
ReachesGate ==
    /\ Validates
    /\ ret'.called /\ ret'.err = ""
    /\ req'.domainEtld1 # "" /\ req'.exactHost # ""
    /\ \/ req'.type = "getCredentials"
       \/ /\ req'.type = "saveCredential"
          /\ ~IsBlank(req'.username) /\ req'.password # ""

\* The host has no eTLD+1, or one that differs from etld1 (case aside).
GateFails(etld1, host) ==
    LET e == EffectiveTLDPlusOne(sanitizeHost(host))
    IN  e.err # "" \/ ToLower(e.etld1) # ToLower(etld1)

\* C11: a getCredentials or saveCredential whose exactHost has no eTLD+1, or
\* one that differs from domainEtld1, is answered ETLD_MISMATCH with no data;
\* no vault.db is created, read or written; and the answer does not depend on
\* what the store holds.
C11_GateBeforeVault ==
    [][(ReachesGate /\ GateFails(req'.domainEtld1, req'.exactHost))
            => /\ resp' = Fail("ETLD_MISMATCH", "")
               /\ dbs' = dbs]_vars

\* The gate refused a page while the vault held a row.
C11_RefusedOverStoredRow ==
    /\ resp.code = "ETLD_MISMATCH"
    /\ ret.called /\ ret.err = ""
    /\ GateFails(req.domainEtld1, req.exactHost)
    /\ "/v1" \in DOMAIN dbs /\ dbs["/v1"].rows # {}

\* The verdict phishingCheck gives for the page of a request: the page is
\* served over https from the request's exactHost, and the host must match
\* when the request requires it.
PageVerdict(rq) ==
    evaluatePhishingCheck("https://" \o rq.exactHost \o "/", rq.domainEtld1,
                          IF rq.requireExactHost THEN rq.exactHost ELSE "")

\* The (directory, row id) pairs of every vault.db.
StoredRows(d) == UNION {{<<dir, r.id>> : r \in d[dir].rows} : dir \in DOMAIN d}

\* C12: no getCredentials returns an item and no saveCredential stores a row
\* for a page for which evaluatePhishingCheck reports ok = false.
C12_HostRunsEvaluator ==
    [][(Validates /\ req'.type \in {"getCredentials", "saveCredential"}
        /\ ~PageVerdict(req').OK)
            => /\ resp'.data.kind = "items" => resp'.data.items = <<>>
               /\ resp'.data.kind # "saved"
               /\ StoredRows(dbs') = StoredRows(dbs)]_vars

\* The password a stored row holds, as its ciphertext was sealed.
Plain(r) == r.blob.ct.pt.val

\* The rows of the session's vault.db.
RowsOf(d, dir) == IF dir \in DOMAIN d THEN d[dir].rows ELSE {}

\* A getCredentials step that passes the gate and names a username.
FetchesUser ==
    /\ ReachesGate /\ req'.type = "getCredentials"
    /\ ~GateFails(req'.domainEtld1, req'.exactHost)
    /\ ~IsBlank(req'.username)

\* C13: a getCredentials that passes the gate and names a username returns the
\* credential saved for that username under the very domainEtld1 of the
\* request, with the password that was saved, in the session of the save and
\* in later ones; it returns nothing when no row has that spelling.
C13_SaveThenFetchExact ==
    [][FetchesUser
            => LET hit == {r \in RowsOf(dbs, ret'.dir) :
                              r.username = req'.username
                              /\ r.website = req'.domainEtld1}
               IN  /\ resp'.ok
                   /\ resp'.data.items
                        = IF hit = {} THEN <<>>
                          ELSE LET r == CHOOSE r \in hit : TRUE
                               IN  <<[username |-> r.username, password |-> Plain(r)]>>]_vars

\* The first request of a second session fetched what the first session saved.
C13_FetchedInLaterSession ==
    /\ req.type = "getCredentials" /\ req.domainEtld1 = "example.com"
    /\ resp.ok /\ resp.data.kind = "items"
    /\ resp.data.items = <<[username |-> "alice", password |-> "hunter2"]>>
    /\ issued = 2 /\ sess.nonces = {req.nonce}

\* C13 as stated: a getCredentials that passes the gate and names a username
\* returns the credential saved for that username under a domainEtld1 that
\* equals the request's up to case.
C13_SaveThenFetch ==
    [][(ReachesGate /\ req'.type = "getCredentials"
        /\ ~GateFails(req'.domainEtld1, req'.exactHost)
        /\ ~IsBlank(req'.username))
            => \A r \in RowsOf(dbs, ret'.dir) :
                  (r.username = req'.username
                   /\ ToLower(r.website) = ToLower(req'.domainEtld1))
                      => /\ resp'.ok
                         /\ resp'.data.items
                              = <<[username |-> r.username, password |-> Plain(r)]>>]_vars

-----------------------------------------------------------------------------
(* Reading and writing stored credentials *)

\* A step in which the desktop application or the command line made a call.
Calls(op) == now' = now /\ osenv' = osenv /\ call'.op = op

\* A getCredentials step of the host that got as far as the store.
HostReads ==
    /\ ReachesGate /\ req'.type = "getCredentials"
    /\ ~GateFails(req'.domainEtld1, req'.exactHost)

\* The credentials a step read from the store and gave to its caller, the
\* vault directory they were read from, and the site.
ItemsRead ==
    IF HostReads /\ resp'.ok /\ resp'.data.kind = "items" THEN resp'.data.items
    ELSE IF (Calls("Service.Get") \/ Calls("cli.get")) /\ call'.err = "" THEN call'.out
    ELSE <<>>

DirRead  == IF call'.op = "host" THEN ret'.dir ELSE call'.dir
SiteRead == IF call'.op = "host" THEN req'.domainEtld1 ELSE call'.site

\* The row of (site, user) a lookup finds first.
RowRead(user) ==
    LET hit == {r \in RowsOf(dbs, DirRead) : r.website = SiteRead /\ r.username = user}
    IN  CHOOSE r \in hit : \A q \in hit : r.id <= q.id

\* C14: on every read path (host getCredentials, Service.Get, `get` of a pm
\* session), each credential that was decrypted and returned has its row
\* stored again under a new salt and a new blob: both differ afterwards from
\* what the row held before the read.
C14_EveryReadRotates ==
    [][\A i \in DOMAIN ItemsRead :
          \E q \in RowsOf(dbs', DirRead) :
              /\ q.id = RowRead(ItemsRead[i].username).id
              /\ q.salt # RowRead(ItemsRead[i].username).salt
              /\ q.blob # RowRead(ItemsRead[i].username).blob]_vars

\* The row opens under mek to plaintext p: its salt has 16 bytes, and its blob
\* is a nonce followed by p sealed under the key HKDF derives from mek and the
\* salt.
OpensTo(mek, r, p) ==
    /\ mek.len = mekLen
    /\ r.salt.len = entrySaltLen
    /\ r.blob.len = gcmNonceSize + Len(p) + 16
    /\ r.blob.nonce.len = gcmNonceSize
    /\ r.blob.ct = [key   |-> [kind |-> "hkdf", ikm |-> mek, salt |-> r.salt,
                               info |-> "entry-key-v1", len |-> 32],
                    nonce |-> r.blob.nonce, aad |-> "",
                    pt    |-> [len |-> Len(p), val |-> p]]

\* The row of dbs' with the id of r.
After(r) == CHOOSE q \in RowsOf(dbs', DirRead) : q.id = r.id

\* The rows a call on (site, user) finds.
Found == {r \in RowsOf(dbs, call'.dir) :
             r.website = call'.site /\ r.username = call'.user}

\* C15: with rand.Read working and a MEK of 32 bytes, what Add or Update
\* encrypted opens under the MEK to the plaintext that was written; a Get of a
\* row that opens to p returns p and stores a new salt and blob that open to p
\* again, so that the next Get returns p as well.
C15_RoundTrip ==
    [][/\ (Calls("Service.Add") /\ call'.err = "")
            => \E q \in RowsOf(dbs', call'.dir) :
                  /\ q.id = dbs[call'.dir].nextId
                  /\ q.username = call'.user
                  /\ OpensTo(svc.mek, q, call'.secret)
       /\ (Calls("Service.Update") /\ call'.err = "")
            => /\ Found # {}
               /\ OpensTo(svc.mek, After(RowRead(call'.user)), call'.secret)
       /\ (Calls("Service.Get") /\ Found # {})
            => \A p \in EntrySecrets :
                  OpensTo(svc.mek, RowRead(call'.user), p)
                      => /\ call'.err = ""
                         /\ call'.out = <<[username |-> call'.user, password |-> p]>>
                         /\ OpensTo(svc.mek, After(RowRead(call'.user)), p)
                         /\ After(RowRead(call'.user)).salt # RowRead(call'.user).salt
                         /\ After(RowRead(call'.user)).blob # RowRead(call'.user).blob]_vars

\* A Get returned the plaintext of a row that had been stored twice since its
\* INSERT (by two Gets, or by an Update and a Get), and the row opens to it.
C15_SecondGetSamePlaintext ==
    /\ call.op = "Service.Get" /\ call.err = ""
    /\ call.out = <<[username |-> "bob", password |-> "p"]>>
    /\ \E r \in RowsOf(dbs, StoreDir) :
          r.username = "bob" /\ r.updated = 2 /\ OpensTo(svc.mek, r, "p")

\* The MEK a read decrypts with: the copy validateRequest handed to the
\* handler, or the one the Service holds.
MekInUse == IF call'.op = "host" THEN ret'.mek ELSE svc.mek

\* The row does not open under mek to what was sealed in it: the key is
\* another one, the blob was tampered with, the salt has not 16 bytes, or the
\* blob has no more than the 12 bytes of a nonce.
Unreadable(mek, r) == ~OpensTo(mek, r, Plain(r))

\* C16: a getCredentials of the host or a Service.Get leaves every row whose
\* decryption fails exactly as it was stored (salt, blob, type, updated_at),
\* and inserts and deletes no row.
C16_FailedReadKeepsStore ==
    [][(HostReads \/ Calls("Service.Get"))
            => /\ StoredRows(dbs') = StoredRows(dbs)
               /\ \A r \in RowsOf(dbs, DirRead) :
                     Unreadable(MekInUse, r) => r \in RowsOf(dbs', DirRead)]_vars

\* The host passed over alice's row, which does not open, and returned bob's;
\* alice's row has never been written since its INSERT.
C16_DamagedRowPassedOver ==
    /\ call.op = "host" /\ req.type = "getCredentials" /\ resp.ok
    /\ resp.data.kind = "items"
    /\ resp.data.items = <<[username |-> "bob", password |-> "s3cret"]>>
    /\ \E r \in RowsOf(dbs, StoreDir) :
          r.username = "alice" /\ Unreadable(VaultMEK, r) /\ r.updated = 0

\* A getCredentials step that passes the gate and names no username, answered
\* with items.
ReadsSite ==
    /\ HostReads /\ IsBlank(req'.username)
    /\ resp'.ok /\ resp'.data.kind = "items"

\* The rows stored for the site of the request.
SiteRows == {r \in RowsOf(dbs, ret'.dir) : r.website = req'.domainEtld1}

\* The item the host returns for a row.
ItemOf(r) == <<[username |-> r.username, password |-> Plain(r)]>>

\* r comes first among rows R in ascending order of username.
FirstByUsername(r, R) ==
    r \in R /\ \A q \in R : UserRank(r.username) <= UserRank(q.username)

\* C17: a getCredentials that names no username returns at most one
\* credential: that of the first row, in ascending order of username, that
\* decrypts under the session's MEK; it returns none when no row of the site
\* decrypts.
C17_FirstDecryptableByUsername ==
    [][ReadsSite
            => LET readable == {r \in SiteRows : ~Unreadable(ret'.mek, r)}
               IN  /\ Len(resp'.data.items) <= 1
                   /\ readable = {} => resp'.data.items = <<>>
                   /\ \A r \in readable :
                         FirstByUsername(r, readable) => resp'.data.items = ItemOf(r)]_vars

\* With the credentials of alice and bob both stored and intact, the request
\* without username returned alice's.
C17_AliceBeforeBob ==
    /\ call.op = "host" /\ req.type = "getCredentials" /\ req.username = ""
    /\ resp.ok /\ resp.data.kind = "items"
    /\ resp.data.items = <<[username |-> "alice", password |-> "hunter2"]>>
    /\ \E r \in RowsOf(dbs, StoreDir) : r.username = "bob" /\ ~Unreadable(VaultMEK, r)

\* C17 as stated: when the site has stored rows, a getCredentials that names
\* no username returns the row with the smallest username.
C17_SmallestUsername ==
    [][ReadsSite
            => /\ Len(resp'.data.items) <= 1
               /\ \A r \in SiteRows :
                     FirstByUsername(r, SiteRows) => resp'.data.items = ItemOf(r)]_vars

\* C18: in every vault.db, whichever program created it and whatever calls
\* of Service.Add/Update/Delete, saveCredential and `add` were made on it, no
\* two rows share (website, username).
C18_PairsUnique ==
    \A dir \in DOMAIN dbs :
        \A r, q \in dbs[dir].rows :
            (r.website = q.website /\ r.username = q.username) => r = q

-----------------------------------------------------------------------------
(* Changing the master password *)

\* header.json of a directory, as it is on disk.
OnDisk(h, dir) == IF dir \in DOMAIN h THEN h[dir] ELSE [json |-> FALSE]

\* The file is a header whose wrapped MEK opens under the key Argon2id derives
\* from password pw and the header's own salt and cost parameters: the salt
\* and the wrapped MEK belong together, and pw unlocks the vault.
Unwraps(file, pw) ==
    /\ file.json
    /\ file.hdr.Version = 1 /\ file.hdr.KDF.Name = "argon2id"
    /\ file.hdr.Salt.kind = "b64" /\ file.hdr.Salt.raw.len = 12
    /\ file.hdr.WrapNonce.kind = "b64" /\ file.hdr.WrapNonce.raw.len = 12
    /\ file.hdr.WrappedMEK.kind = "b64"
    /\ file.hdr.WrappedMEK.raw.nonce = file.hdr.WrapNonce.raw
    /\ file.hdr.WrappedMEK.raw.aad = "header.mek"
    /\ file.hdr.WrappedMEK.raw.key =
           [kind |-> "argon2id", pw |-> pw, salt |-> file.hdr.Salt.raw,
            mem |-> file.hdr.KDF.MemoryMB, time |-> file.hdr.KDF.Time,
            par |-> file.hdr.KDF.Parallelism, len |-> 32]

\* The MEK the header wraps.
Wrapped(file) == file.hdr.WrappedMEK.raw.pt

\* A step that was a change of the master password, by either program.
Changes == Calls("Service.ChangeMaster") \/ Calls("cli.master.change")

\* C19: a change of the master password that fails, for whichever reason
\* (the policy, a wrong old password, the KDF or the salt of the header, a
\* failing rand.Read, a failure to create, write or rename the temporary
\* file, the process being killed before the rename), leaves header.json of
\* every directory as it was, so that what unwrapped with the old password
\* still does; one that succeeds leaves a header whose salt and wrapped MEK
\* unwrap with the new password to the MEK the old header wrapped, and
\* changes no other directory.
C19_AllOrNothing ==
    [][Changes
            => IF call'.err # "" THEN headers' = headers
               ELSE /\ Unwraps(OnDisk(headers, call'.dir), call'.master)
                    /\ Unwraps(OnDisk(headers', call'.dir), call'.newMaster)
                    /\ Wrapped(headers'[call'.dir]) = Wrapped(headers[call'.dir])
                    /\ \A d \in DOMAIN headers \ {call'.dir} : headers'[d] = headers[d]
                    /\ DOMAIN headers' = DOMAIN headers]_vars

\* The process was killed before the rename, and the old password still
\* unwraps the MEK of /v1.
C19_KilledBeforeRename ==
    /\ call.op \in {"Service.ChangeMaster", "cli.master.change"}
    /\ call.err = "killed" /\ call.dir = "/v1" /\ call.master = "pw1"
    /\ Unwraps(headers["/v1"], "pw1")
    /\ Wrapped(headers["/v1"]) = VaultMEK

-----------------------------------------------------------------------------
(* Setting up a vault *)

\* header.json of the directory exists and holds a wrapped MEK.
HoldsMEK(h, dir) ==
    /\ dir \in DOMAIN h /\ h[dir].json
    /\ h[dir].hdr.WrapNonce.kind # "empty" /\ h[dir].hdr.WrappedMEK.kind # "empty"

\* C21: a Service.SetMaster on a directory whose header holds a wrapped MEK
\* fails and leaves every header.json as it was, and so does a `pm master
\* set` there with a password that does not unwrap it; on every step of
\* every program (SetMaster, master set, ChangeMaster, master change, Unlock
\* and the rest) a header that holds a wrapped MEK holds the same MEK
\* afterwards: the MEK of a vault is generated once.
C21_MEKGeneratedOnce ==
    [][/\ (Calls("Service.SetMaster") /\ HoldsMEK(headers, call'.dir))
            => call'.err # "" /\ headers' = headers
       /\ (/\ Calls("cli.master.set") /\ HoldsMEK(headers, call'.dir)
           /\ ~Unwraps(headers[call'.dir], call'.master))
            => call'.err # "" /\ headers' = headers
       /\ \A d \in DOMAIN headers :
             HoldsMEK(headers, d)
                => HoldsMEK(headers', d) /\ Wrapped(headers'[d]) = Wrapped(headers[d])]_vars

\* The vault was made with one password and its master password changed to
\* another; a SetMaster with a password that meets the policy is refused.
C21_SecondSetRefused ==
    /\ call.op = "Service.SetMaster" /\ call.master = "Correct-Horse-9!"
    /\ call.err = "vault already initialised; unlock instead"
    /\ Unwraps(headers[StoreDir], "Zr7!q-LongerPass#42")
    /\ Wrapped(headers[StoreDir]) = NewMEK(2)

\* The header is JSON; salt, wrapNonce and wrappedMEK are all there or all
\* missing; when there, the header says version 1, argon2id and a key of 32
\* bytes, and the wrapped MEK is the 32 bytes of the MEK and the 16 of the tag.
HeaderOK(file) ==
    /\ file.json
    /\ \/ /\ file.hdr.Salt.kind = "empty"
          /\ file.hdr.WrapNonce.kind = "empty"
          /\ file.hdr.WrappedMEK.kind = "empty"
       \/ /\ file.hdr.Salt.kind = "b64"
          /\ file.hdr.WrapNonce.kind = "b64"
          /\ file.hdr.WrappedMEK.kind = "b64"
          /\ file.hdr.KDF.KeyLen = 32 /\ file.hdr.KDF.Name = "argon2id"
          /\ file.hdr.Version = 1
          /\ file.hdr.WrappedMEK.raw.pt.len + 16 = 48

\* C22: after every step of SetMaster, master set, ChangeMaster and master
\* change, successful, failed or killed, every header.json on disk is as
\* HeaderOK says; and NeedsMasterSetup returns true exactly when header.json
\* is missing or holds no wrapped MEK.
C22_HeaderInvariant ==
    [][/\ \A d \in DOMAIN headers' : HeaderOK(headers'[d])
       /\ Calls("Service.NeedsMasterSetup")
            => /\ call'.err = ""
               /\ call'.out = <<"true">> <=> ~HoldsMEK(headers, call'.dir)
               /\ call'.out = <<"false">> <=> HoldsMEK(headers, call'.dir)]_vars

\* NeedsMasterSetup said no on the vault a SetMaster made.
C22_SetupNotNeeded ==
    /\ call.op = "Service.NeedsMasterSetup" /\ call.out = <<"false">>
    /\ Unwraps(headers[call.dir], "Correct-Horse-9!")
    /\ HeaderOK(headers[call.dir])

\* A step in which a program set or changed a master password.
WritesHeader ==
    \/ Calls("Service.SetMaster") \/ Calls("cli.master.set")
    \/ Calls("Service.ChangeMaster") \/ Calls("cli.master.change")

\* The password a header written by the step unwraps with.
PasswordSet == IF call'.newMaster # "" THEN call'.newMaster ELSE call'.master

\* C23: whenever the process is killed inside SaveVaultHeader (after
\* CreateTemp, Write, Chmod, before or after Rename), header.json of the
\* directory is what it was before the call, or missing as it was, or the
\* whole new header, which unwraps with the password being set; header.json
\* of no other directory changes; and in every state every header.json on
\* disk is a complete JSON document, which is what a LoadVaultHeader running
\* at that moment reads.
C23_SaveAtomic ==
    [][/\ \A d \in DOMAIN headers' : headers'[d].json
       /\ (WritesHeader /\ call'.err = "killed")
            => \/ headers' = headers
               \/ /\ call'.dir \in DOMAIN headers'
                  /\ HeaderOK(headers'[call'.dir])
                  /\ Unwraps(headers'[call'.dir], PasswordSet)
                  /\ \A d \in DOMAIN headers' \ {call'.dir} :
                        d \in DOMAIN headers /\ headers'[d] = headers[d]]_vars

\* The desktop application was killed after the rename of the first header:
\* the vault exists and unlocks with the password that was being set.
C23_KilledAfterRename ==
    /\ call.op = "Service.SetMaster" /\ call.err = "killed"
    /\ StoreDir \in DOMAIN headers
    /\ Unwraps(headers[StoreDir], call.master)

\* The calls of the Service on the entry store.
StoreCalls ==
    {"Service.Add", "Service.Get", "Service.Update", "Service.Delete", "Service.List"}

\* C24: a call of Add, Get, Update, Delete or List on a Service that holds no
\* MEK (never unlocked, unlocked without success, set up but not unlocked,
\* closed) returns "vault locked", gives nothing back, draws nothing and
\* leaves vault.db as it was, and none of them succeeds without a MEK; a
\* Service without a MEK comes to hold one only by an Unlock or a
\* ChangeMaster that succeeds; a failed Unlock leaves the Service as it was
\* and Close leaves it without a MEK.
C24_LockedGating ==
    [][/\ \A op \in StoreCalls :
             Calls(op)
                => /\ svc.mek = NoBytes
                        => /\ call'.err = "vault locked" /\ call'.out = <<>>
                           /\ dbs' = dbs /\ rng' = rng
                   /\ call'.err = "" => svc.mek # NoBytes
       /\ (svc.mek = NoBytes /\ svc'.mek # NoBytes)
            => /\ Calls("Service.Unlock") \/ Calls("Service.ChangeMaster")
               /\ call'.err = ""
       /\ (Calls("Service.Unlock") /\ call'.err # "") => svc' = svc
       /\ Calls("Service.Close") => svc'.mek = NoBytes]_vars

\* A Get on a Service that was closed, over a store that holds a credential.
C24_LockedAfterClose ==
    /\ call.op = "Service.Get" /\ call.err = "vault locked"
    /\ ~svc.open /\ svc.dir = StoreDir
    /\ dbs[StoreDir].rows # {}

\* C30: a master password that meets the length, character-class and
\* strength rules, and that no breach list holds, is never refused by the
\* policy check of Service.SetMaster or Service.ChangeMaster, whether the
\* breach lookup answered or failed.
C30_OracleOptional ==
    [][/\ (Calls("Service.SetMaster") /\ call'.master \in StrongPasswords)
            => call'.err # "validate master password"
       /\ (Calls("Service.ChangeMaster") /\ call'.newMaster \in StrongPasswords)
            => call'.err # "validate new master password"]_vars

-----------------------------------------------------------------------------
(* The frames of the host *)

\* The codes the specification lists for the wire.
WireCodes ==
    {"BAD_JSON", "BAD_REQUEST", "UNSUPPORTED", "UNLOCK_FAILED", "UNAUTHORIZED",
     "SESSION_EXPIRED", "NONCE_REPLAY", "INVALID_STATE", "DB_ERROR", "ENCRYPT_FAILED",
     "ETLD_MISMATCH", "ETLD_INVALID", "URL_PARSE_ERROR", "PHISHING_BLOCK",
     "NO_CREDENTIALS"}

\* C27: the response written last has the fields ok, code, message and data;
\* when ok is true it has no code, and when ok is false its code is one of
\* the listed codes.
C27_ClosedCodes ==
    /\ DOMAIN resp = {"ok", "code", "message", "data"}
    /\ resp.ok => resp.code = ""
    /\ ~resp.ok => resp.code \in WireCodes

\* C25: the frames on stdout are, in order, the responses to the first, the
\* second, ... frame read, one each; at most one frame that was read is
\* without its response; a frame is read only when every frame read before
\* it has its response on stdout, however many frames wait in the pipe; and
\* each write puts the one response of the handler that just returned.
C25_OneResponseInOrder ==
    [][/\ \A i \in 1..Len(proc'.stdout) : proc'.stdout[i].n = i
       /\ Len(proc'.stdout) <= proc'.taken /\ proc'.taken <= Len(proc'.stdout) + 1
       /\ proc'.taken > proc.taken
            => /\ Len(proc.stdout) = proc.taken
               /\ proc'.taken = proc.taken + 1
               /\ proc'.stdout = proc.stdout
       /\ proc'.stdout # proc.stdout
            => /\ proc'.stdout = Append(proc.stdout, proc'.stdout[Len(proc'.stdout)])
               /\ proc'.stdout[Len(proc'.stdout)].resp = resp
               /\ proc'.taken = proc.taken
       /\ (proc'.pc = "read" /\ proc'.exit = "")
            => Len(proc'.stdout) = proc'.taken]_vars

\* The unlock and the request behind it were answered in that order while a
\* third frame waits in the pipe.
C25_TwoAnsweredOneWaiting ==
    /\ Len(proc.stdout) = 2 /\ proc.taken = 2 /\ Len(proc.stdin) = 1
    /\ proc.stdout[1].n = 1 /\ proc.stdout[1].resp.data.kind = "unlock"
    /\ proc.stdout[2].n = 2 /\ proc.stdout[2].resp.ok
    /\ req.type = "getCredentials"

\* C26: when readFrame returns on a frame whose prefix declares more than
\* 1048576 bytes, the loop ends with a read error, the frame is not counted
\* as read and nothing is written; a frame of at most 1048576 bytes that
\* arrived whole (of 0 bytes, of exactly 1048576) is read as it was sent and
\* handed to handleRequest, and the write that follows its handler puts its
\* one response on stdout; no response on stdout answers a frame above the
\* limit, and nothing is written once the loop has ended.
C26_FrameSizeLimit ==
    [][/\ (proc.pc = "read" /\ proc'.pc # "read" /\ proc.stdin # <<>>)
            => LET item == Head(proc.stdin)
               IN  /\ item.size > 1048576
                        => /\ proc'.exit = "read error"
                           /\ proc'.taken = proc.taken
                           /\ proc'.stdout = proc.stdout
                   /\ (item.size <= 1048576 /\ ~item.cut)
                        => /\ proc'.exit = "" /\ proc'.pc = "handle"
                           /\ proc'.taken = proc.taken + 1
                           /\ proc'.job.rq = item.rq /\ proc'.job.size = item.size
       /\ (proc.pc = "write" /\ proc'.pc = "read")
            => proc'.stdout = Append(proc.stdout, [n |-> proc.taken,
                                                   size |-> proc.job.size,
                                                   resp |-> resp])
       /\ \A i \in 1..Len(proc'.stdout) : proc'.stdout[i].size <= 1048576
       /\ proc.exit # "" => proc'.stdout = proc.stdout]_vars

\* An empty frame was answered BAD_JSON, an unlock of exactly 1 MiB was
\* answered with a token, and a frame of one byte more ended the loop.
C26_LimitReached ==
    /\ Len(proc.stdout) = 2 /\ proc.exit = "read error" /\ proc.taken = 2
    /\ proc.stdout[1].size = 0 /\ proc.stdout[1].resp.code = "BAD_JSON"
    /\ proc.stdout[2].size = 1048576 /\ proc.stdout[2].resp.ok
    /\ proc.stdout[2].resp.data.kind = "unlock"

\* C28: the process exits through the signal goroutine only after that
\* goroutine's clear() has returned; that clear() leaves every field of the
\* session at its zero value and every byte of the session's MEK buffer
\* zero; and from a signal received at any position of main (blocked in
\* readFrame, in a handler, holding the mutex, in writeFrame) the process
\* comes to its end.
C28_ClearBeforeExit ==
    /\ [][/\ (proc.exit = "" /\ proc'.exit = "signal") => proc.sig = "cleared"
          /\ (proc.sig = "clearing" /\ proc'.sig = "cleared")
                => /\ sess' = NoSession
                   /\ sess.mek # Nil => heap'[sess.mek].val = 0
                   /\ proc'.exit = ""
          /\ proc'.sig = "cleared" => proc.sig \in {"clearing", "cleared"}]_vars
    /\ (proc.sig = "received") ~> (proc.exit # "")

\* The signal came while main was at work on vault.db for a request of an
\* unlocked session: the session is cleared and the process has exited.
C28_ExitedMidRequest ==
    /\ proc.exit = "signal" /\ proc.pc = "handle" /\ proc.job.parts = <<"serve">>
    /\ proc.job.rq.type = "getCredentials"
    /\ issued = 1 /\ sess = NoSession
    /\ \A i \in 1..Len(heap) : i = 1 => heap[i].val = 0

-----------------------------------------------------------------------------
(* The order of the checks, and what a rejection leaves *)

-----------------------------------------------------------------------------
(* The extension *)

\* r holds the reason x.
HasReason(r, x) == \E k \in 1..Len(r) : r[k] = x

\* C32: a REQUEST_FILL sent from a frame that is not the top-level frame of
\* its tab gets, whenever it gets a verdict, one that is not ok and names
\* IFRAME, and its response never carries credentials, whatever other
\* handlers ran between its awaits.
C32_IframeNeverFilled ==
    \A i \in 1..Len(bg.hs) :
        (bg.hs[i].type = "REQUEST_FILL" /\ bg.hs[i].frameId # 0)
            => /\ bg.hs[i].judged
                    => /\ ~bg.hs[i].verdict.ok
                       /\ HasReason(bg.hs[i].verdict.reasons, "IFRAME")
               /\ ~(bg.hs[i].answer.sent /\ bg.hs[i].answer.ok)

-----------------------------------------------------------------------------
(* What a request that is refused does to the session *)

\* C33: an unlock that names a directory ends the session that was active,
\* whatever its password and whatever token it carries: when it is answered
\* UNLOCK_FAILED or BAD_REQUEST (a wrong or an empty password, a directory
\* that cannot be opened) there is no session afterwards, the MEK of the old
\* session is zeroized, and the old token, like every token, is answered
\* UNAUTHORIZED; when it succeeds the old token is not the new session's.
C33_UnlockEndsSession ==
    [][ (Served /\ req'.json /\ req'.type = "unlock" /\ ~IsBlank(req'.dir))
        => /\ (~resp'.ok /\ resp'.code \in {"UNLOCK_FAILED", "BAD_REQUEST"})
                => /\ sess' = NoSession
                   /\ heap' = <<>>
                   /\ \A n \in Nonces : \A tk \in AllTokens \cup {sess.token} :
                         validateRequest([sess |-> sess', heap |-> heap'],
                                         tk, n, now, osenv).err = "unauthorized"
           /\ resp'.code \in {"", "UNLOCK_FAILED", "BAD_REQUEST", "INTERNAL"}
           /\ sess.token # "" => sess'.token # sess.token
      ]_vars

\* A session was active under tok1 and an unlock with the wrong password,
\* carrying no token, ended it.
C33_WrongPasswordLocked ==
    /\ req.type = "unlock" /\ req.masterPassword = "wrong" /\ req.sessionToken = ""
    /\ resp.code = "UNLOCK_FAILED"
    /\ issued = 1 /\ sess = NoSession /\ heap = <<>>

\* C34: a privileged request answered UNAUTHORIZED (no token or nonce,
\* another token, another OS user) leaves the session exactly as it was:
\* token, MEK, dir, expires and the set of nonces, the MEK's bytes included;
\* and a frame of health, phishingCheck or an unknown type is answered
\* without a call of validateRequest and leaves the session as it was.
C34_RefusalKeepsSession ==
    [][ Served
        => /\ (Validates /\ ~resp'.ok /\ resp'.code = "UNAUTHORIZED")
                => /\ sess' = sess /\ heap' = heap
                   /\ sess'.token = sess.token /\ sess'.mek = sess.mek
                   /\ sess'.dir = sess.dir /\ sess'.expires = sess.expires
                   /\ sess'.nonces = sess.nonces
           /\ (req'.json /\ req'.type \notin {"unlock", "lock", "getCredentials",
                                              "saveCredential"})
                => /\ sess' = sess /\ heap' = heap
                   /\ ~ret'.called
      ]_vars

\* Before the expiry, a request under a token that is not the session's and
\* a nonce not yet used was answered UNAUTHORIZED, and the nonce is still
\* unused.
C34_WrongTokenRefused ==
    /\ resp.code = "UNAUTHORIZED" /\ req.type = "getCredentials"
    /\ sess.token # "" /\ now <= sess.expires
    /\ req.sessionToken \notin {"", sess.token}
    /\ req.nonce # "" /\ req.nonce \notin sess.nonces

-----------------------------------------------------------------------------
(* The requireExactHost flag in the host *)

\* C35: in every state of the session and of the store, for every
\* getCredentials and saveCredential frame and whether or not the random
\* source and vault.db work, the host's answer and the state it leaves
\* (session, memory, vault.db, draws) are the same with requireExactHost
\* true as with requireExactHost false.
C35_ExactHostFlagInert ==
    \A rq \in GetFrames \cup SaveFrames : \A f \in {"none", "rand", "db"} :
        Turn([rq EXCEPT !.requireExactHost = TRUE], f)
            = Turn([rq EXCEPT !.requireExactHost = FALSE], f)

\* A page whose host is spelled with capitals and a port asked for
\* credentials with requireExactHost set in an unlocked session, passed the
\* gate and was answered from vault.db.
C35_ExactHostServed ==
    /\ req.type = "getCredentials" /\ req.requireExactHost
    /\ req.exactHost = "Login.Example.com:443"
    /\ resp.ok /\ resp.data.kind = "items"
    /\ sess.token # "" /\ req.sessionToken = sess.token

-----------------------------------------------------------------------------
(* One vault.db, two schemas *)

\* C36: on every vault.db that the desktop application has made (created by
\* vault.Open, written by Service.Add, Update and Delete), the host's
\* db.Open and db.Migrate succeed, so that no getCredentials or
\* saveCredential is answered DB_ERROR for the schema; and a second Migrate
\* and a second vault.Open leave the file as the first left it.
C36_SchemaCompatible ==
    \A dir \in DOMAIN dbs :
        LET m == OpenAndMigrate(dbs, dir)
        IN  /\ m.err = ""
            /\ OpenAndMigrate(m.dbs, dir) = m
            /\ vaultOpen(dbs, dir) = dbs

-----------------------------------------------------------------------------
(* The session at the exit on a signal *)

\* C38: at the moment the process exits through the signal goroutine the
\* session is LOCKED, every field at its zero value and the MEK empty: no
\* unlock establishes a session between the signal goroutine's clear() and
\* its os.Exit(0).
C38_LockedAtExit ==
    proc.exit = "signal" => sess = NoSession

-----------------------------------------------------------------------------
(* The rotation of a read beside an update *)

\* What a stored row decrypts to under the vault's MEK.
PlainOf(r) == DecryptEntryPassword3(VaultMEK, r.salt, r.blob)

\* C37: the step in which a read (the host's decryptRow, Service.Get) stores
\* its rotation leaves every row of vault.db decrypting to what it decrypted
\* to before that step: the write-back by id never puts a re-encryption of
\* the plaintext it read over a ciphertext that an Update stored since.
C37_RotationKeepsUpdate ==
    [][(\/ rd.host.on /\ ~rd'.host.on
        \/ rd.svc.on /\ ~rd'.svc.on)
          => \A dir \in DOMAIN dbs : \A r \in dbs[dir].rows : \A q \in dbs'[dir].rows :
                q.id = r.id => PlainOf(q) = PlainOf(r)]_vars

-----------------------------------------------------------------------------
(* One request at a time on the persistent port *)

\* C39: at most one request is in flight (posted and not settled) on the
\* persistent port; the requests are posted in the order of their sendNative
\* calls; sendPersistentNative runs at most twice for a call; and no call is
\* rejected with "native request already in flight"; whatever the order of
\* responses, disconnects of the port and disconnectPersistentPort and
\* resetNativeConnection calls.
C39_PortSerialized ==
    /\ Cardinality({i \in 1..Len(nm.calls) : nm.calls[i].st = "posted"}) <= 1
    /\ \A a, b \in 1..Len(nm.posts) : a < b => nm.posts[a] <= nm.posts[b]
    /\ \A i \in 1..Len(nm.calls) :
        /\ nm.calls[i].tries <= 2
        /\ nm.calls[i].err # InFlightMsg

\* A lock that the host refused was followed by disconnectPersistentPort
\* while a call waited behind it; that call and one made afterwards, on a
\* lastCall that was reset, each ran twice on the disconnected port and were
\* rejected for it.
C39_CallsAfterReset ==
    /\ Len(nm.calls) = 3 /\ nm.posts = <<1>>
    /\ nm.calls[1].op = "lock" /\ nm.calls[1].st = "resolved" /\ ~nm.calls[1].ok
    /\ nm.calls[2].after = 1 /\ nm.calls[2].st = "rejected" /\ nm.calls[2].tries = 2
    /\ nm.calls[2].err = DeadPortMsg
    /\ nm.calls[3].after = 0 /\ nm.calls[3].st = "rejected"
       /\ nm.calls[3].err = DeadPortMsg

====
